---- MODULE Spec2Model ----
(***************************************************************************)
(* Eleven Interior API: the middleware core of the Cloudflare worker.      *)
(*   - LRUCache and rateLimiter   (src/src/middleware/rateLimiter.js)      *)
(*   - decodeJWT, verifyJWT, authMiddleware (src/src/middleware/auth.js)   *)
(*   - generateJWT                (src/unnamed/part_002, routes/auth.js)   *)
(*   - the route tables           (src/unnamed/part_000, src/src/index.js) *)
(*   - generateSignature          (src/src/services/cloudinary.js)         *)
(*   - login, refreshToken, logout, changePassword                         *)
(*                                (src/unnamed/part_002, routes/auth.js)   *)
(*   - createInquiry, updateInquiry (src/unnamed/part_002 and part_003)    *)
(*                                                                         *)
(* Time is the value of Date.now() in milliseconds.  The configuration     *)
(* numbers of the source (1000 ms per second, a 15 minute window, a one    *)
(* hour block, 100 / 500 requests, a cache of 1000 entries, a 24 hour      *)
(* token) are kept in their relations but scaled down so that every        *)
(* threshold is crossed within the explored time and request range.        *)
(***************************************************************************)
EXTENDS Integers, Sequences, FiniteSets, TLC

VARIABLES rateLimitCache, now, env, router, held, last, run, deadline,
          lru, history, inflight, calls, db, tokens

vars == <<rateLimitCache, now, env, router, held, last, run, deadline,
          lru, history, inflight, calls, db, tokens>>

----------------------------------------------------------------------------
(* Scaled configuration and exploration bounds *)

\* milliseconds per second (1000 in the source: Date.now() / 1000)
msPerSec == 2
\* RATE_LIMIT_CONFIG.windowMs is 15 * 60 * 1000: the window in seconds
WindowSecs == 1
\* RATE_LIMIT_CONFIG.blockDuration is 60 * 60 * 1000: the block in seconds
BlockSecs == 3
\* RATE_LIMIT_CONFIG.maxRequests is 100
maxRequests == 2
\* RATE_LIMIT_CONFIG.adminMaxRequests is 500
adminMaxRequests == 3
\* new LRUCache(1000)
capacity == 1
\* last value of the clock that is explored, in milliseconds
MaxTime == 7

windowMs == WindowSecs * msPerSec
blockDuration == BlockSecs * msPerSec

----------------------------------------------------------------------------
(* Values *)

null == [kind |-> "null"]
undefined == [kind |-> "undefined"]

\* rounding down
CeilDiv_floor(a, b) == a \div b

\* Math.ceil(a / b) for a >= 0, b > 0
CeilDiv(a, b) == (a + b - 1) \div b

\* client addresses that are used as cache keys ("" is an absent header)
Addresses == {"203.0.113.5"}

\* A URL is its path split at "/" and its query string split at "/"
\* (<<>> when there is no query string).
Url(path, query) == [path |-> path, query |-> query]

----------------------------------------------------------------------------
(* LRUCache: the Map is `cache` (key -> node value), the doubly linked     *)
(* list between the head and tail sentinels is `list`, head side first.    *)

EmptyMap == [k \in {} |-> null]

LRUCache(cap) == [capacity |-> cap, cache |-> EmptyMap, list |-> <<>>]

has(c, key) == key \in DOMAIN c.cache

\* a node that stays linked
removeNode_keep(list, key) == list

removeNode(list, key) == SelectSeq(list, LAMBDA k : k # key)

addToHead(list, key) == <<key>> \o list

\* a node that stays where it is
moveToHead_stay(list, key) == list

moveToHead(list, key) == addToHead(removeNode(list, key), key)

\* the node after the head sentinel
removeTail_head(list) == [key |-> list[1], list |-> SubSeq(list, 2, Len(list))]

\* the node before the tail sentinel
removeTail(list) == [key |-> list[Len(list)], list |-> SubSeq(list, 1, Len(list) - 1)]

MapDelete(m, key) == [k \in (DOMAIN m) \ {key} |-> m[k]]

MapSet(m, key, value) == [k \in (DOMAIN m) \cup {key} |-> IF k = key THEN value ELSE m[k]]

\* a get that moves the key to the head without looking it up
get_alwaysMoves(c, key) ==
  [value |-> IF has(c, key) THEN c.cache[key] ELSE null,
   lru |-> [c EXCEPT !.list = moveToHead(c.list, key)]]

\* get returns the value (or null) and the cache as get leaves it
get(c, key) ==
  IF has(c, key)
  THEN [value |-> c.cache[key], lru |-> [c EXCEPT !.list = moveToHead(c.list, key)]]
  ELSE [value |-> null, lru |-> c]

put(c, key, value) ==
  IF has(c, key)
  THEN [c EXCEPT !.cache = MapSet(c.cache, key, value),
                 !.list = moveToHead(c.list, key)]
  ELSE LET full == Cardinality(DOMAIN c.cache) >= c.capacity
           tail == removeTail(c.list)
           map1 == IF full THEN MapDelete(c.cache, tail.key) ELSE c.cache
           list1 == IF full THEN tail.list ELSE c.list
       IN [c EXCEPT !.cache = MapSet(map1, key, value),
                    !.list = addToHead(list1, key)]

----------------------------------------------------------------------------
(* rateLimiter *)

\* CF-Connecting-IP || X-Forwarded-For || X-Real-IP || 'unknown'
getClientIP(request) ==
  IF request.headers.cf # "" THEN request.headers.cf
  ELSE IF request.headers.xff # "" THEN request.headers.xff
  ELSE IF request.headers.xreal # "" THEN request.headers.xreal
  ELSE "unknown"

ClientKeys == Addresses \cup {"unknown"}

\* url.includes('/admin/'): a piece "admin" with a "/" on both sides.  The
\* first piece of the query string is glued to the last piece of the path.
isAdminEndpoint(url) ==
  \/ \E i \in 1..(Len(url.path) - 1) : url.path[i] = "admin"
  \/ \E i \in 2..(Len(url.query) - 1) : url.query[i] = "admin"

Response429(code, retryAfter) ==
  [kind |-> "Response", status |-> 429, code |-> code,
   retryAfter |-> retryAfter, RetryAfterHeader |-> retryAfter]

\* a new record that already counts one request
freshRecord_one(t) == [count |-> 1, windowStart |-> t, blocked |-> FALSE, blockUntil |-> 0]

\* the record of a client that has none
freshRecord(t) == [count |-> 0, windowStart |-> t, blocked |-> FALSE, blockUntil |-> 0]

\* limitData.blocked && now < limitData.blockUntil
isBlocked(limitData, t) == limitData.blocked /\ t < limitData.blockUntil

\* a window that ends one millisecond early
windowExpired_atLeast(limitData, t) == t - limitData.windowStart >= windowMs

\* now - limitData.windowStart > RATE_LIMIT_CONFIG.windowMs
windowExpired(limitData, t) == t - limitData.windowStart > windowMs

\* a reset that leaves the block flag
resetWindow_keepBlocked(limitData, t) ==
  [limitData EXCEPT !.count = 0, !.windowStart = t]

resetWindow_keepCount(limitData, t) ==
  [limitData EXCEPT !.windowStart = t, !.blocked = FALSE]

resetWindow(limitData, t) ==
  [limitData EXCEPT !.count = 0, !.windowStart = t, !.blocked = FALSE]

\* every path at the admin threshold
limitFor_admin(isAdmin) == adminMaxRequests

limitFor_public(isAdmin) == maxRequests

\* isAdmin ? adminMaxRequests : maxRequests
limitFor(isAdmin) == IF isAdmin THEN adminMaxRequests ELSE maxRequests

exceeds_atLeast(count, limit) == count >= limit

\* limitData.count > maxRequests
exceeds(count, limit) == count > limit

\* one call of rateLimiter at time t on cache c: the response and the cache after
rateLimiter(c, request, t) ==
  LET ip == getClientIP(request)
      isAdmin == isAdminEndpoint(request.url)
      g == get(c, ip)
      limitData == IF g.value = null THEN freshRecord(t) ELSE g.value
  IN IF isBlocked(limitData, t)
     THEN [response |-> Response429("RATE_LIMIT_BLOCKED",
                                    CeilDiv(limitData.blockUntil - t, msPerSec)),
           cache |-> g.lru]
     ELSE LET reset == IF windowExpired(limitData, t)
                       THEN resetWindow(limitData, t)
                       ELSE limitData
              counted == [reset EXCEPT !.count = @ + 1]
          IN IF exceeds(counted.count, limitFor(isAdmin))
             THEN [response |-> Response429("RATE_LIMIT_EXCEEDED", blockDuration \div msPerSec),
                   cache |-> put(g.lru, ip,
                                 [counted EXCEPT !.blocked = TRUE,
                                                 !.blockUntil = t + blockDuration])]
             ELSE [response |-> undefined, cache |-> put(g.lru, ip, counted)]

----------------------------------------------------------------------------
(* Base64 as btoa and atob compute it.  A string is a sequence of          *)
(* one-character strings, a byte string a sequence of 0..255.              *)

B64 == << "A", "B", "C", "D", "E", "F", "G", "H", "I", "J", "K", "L", "M",
          "N", "O", "P", "Q", "R", "S", "T", "U", "V", "W", "X", "Y", "Z",
          "a", "b", "c", "d", "e", "f", "g", "h", "i", "j", "k", "l", "m",
          "n", "o", "p", "q", "r", "s", "t", "u", "v", "w", "x", "y", "z",
          "0", "1", "2", "3", "4", "5", "6", "7", "8", "9", "+", "/" >>

B64Chars == {B64[i] : i \in 1..64}

Sextet(ch) == (CHOOSE i \in 1..64 : B64[i] = ch) - 1

\* btoa: three bytes give four characters, a rest of two bytes gives three
\* characters and "=", a rest of one byte two characters and "=="
RECURSIVE btoa(_)
btoa(bytes) ==
  IF Len(bytes) = 0 THEN <<>>
  ELSE IF Len(bytes) = 1
  THEN << B64[(bytes[1] \div 4) + 1], B64[((bytes[1] % 4) * 16) + 1], "=", "=" >>
  ELSE IF Len(bytes) = 2
  THEN << B64[(bytes[1] \div 4) + 1],
          B64[((bytes[1] % 4) * 16 + bytes[2] \div 16) + 1],
          B64[((bytes[2] % 16) * 4) + 1], "=" >>
  ELSE << B64[(bytes[1] \div 4) + 1],
          B64[((bytes[1] % 4) * 16 + bytes[2] \div 16) + 1],
          B64[((bytes[2] % 16) * 4 + bytes[3] \div 64) + 1],
          B64[(bytes[3] % 64) + 1] >> \o btoa(SubSeq(bytes, 4, Len(bytes)))

\* the bytes of a sequence of sextets; bits left over at the end are dropped
RECURSIVE sextetBytes(_)
sextetBytes(q) ==
  IF Len(q) < 2 THEN <<>>
  ELSE IF Len(q) = 2 THEN << q[1] * 4 + q[2] \div 16 >>
  ELSE IF Len(q) = 3
  THEN << q[1] * 4 + q[2] \div 16, (q[2] % 16) * 16 + q[3] \div 4 >>
  ELSE << q[1] * 4 + q[2] \div 16, (q[2] % 16) * 16 + q[3] \div 4,
          (q[3] % 4) * 64 + q[4] >> \o sextetBytes(SubSeq(q, 5, Len(q)))

\* String.prototype.replace(/from/g, to)
replaceAll(str, from, to) == [i \in 1..Len(str) |-> IF str[i] = from THEN to ELSE str[i]]

\* String.prototype.replace(/ch/g, '')
removeAll(str, ch) == SelectSeq(str, LAMBDA x : x # ch)

\* atob (forgiving-base64 decode): white space is removed, one or two "="
\* at the end of a string of a multiple of four characters are removed, a
\* length of 1 modulo 4 or any other character outside the alphabet throws.
atob(str) ==
  LET s1 == removeAll(str, " ")
      n1 == Len(s1)
      s2 == IF n1 > 0 /\ n1 % 4 = 0 /\ s1[n1] = "="
            THEN IF s1[n1 - 1] = "=" THEN SubSeq(s1, 1, n1 - 2) ELSE SubSeq(s1, 1, n1 - 1)
            ELSE s1
  IN IF Len(s2) % 4 = 1 \/ \E i \in 1..Len(s2) : s2[i] \notin B64Chars
     THEN [ok |-> FALSE, bytes |-> <<>>]
     ELSE [ok |-> TRUE, bytes |-> sextetBytes([i \in 1..Len(s2) |-> Sextet(s2[i])])]

----------------------------------------------------------------------------
(* Tokens.  token.split('.') gives the segments; a token is kept as its    *)
(* segments: header, payload, signature and what follows the signature.    *)
(* A header or payload segment is kept by what atob and JSON.parse make of *)
(* it; the signature segment is kept character by character.               *)

\* btoa(JSON.stringify(value)).replace(/=/g, '')
JsonSegment(value) == [kind |-> "json", value |-> value]
\* base64 of a text that is not JSON
TextSegment == [kind |-> "text"]
\* a segment atob throws on
BrokenSegment == [kind |-> "broken"]
\* the empty string
EmptySegment == [kind |-> "empty"]
\* no such element in the array split returns
MissingSegment == [kind |-> "missing"]
\* a segment given by its characters
CharSegment(str) == [kind |-> "chars", chars |-> str]

Token(header, payload, signature, rest) ==
  [header |-> header, payload |-> payload, signature |-> signature, rest |-> rest]

\* !segment
Falsy(segment) ==
  \/ segment.kind \in {"missing", "empty"}
  \/ segment.kind = "chars" /\ segment.chars = <<>>

\* JSON.parse(atob(segment)); ok is FALSE when either throws
parseSegment(segment) ==
  IF segment.kind = "json" THEN [ok |-> TRUE, value |-> segment.value]
  ELSE [ok |-> FALSE, value |-> null]

JwtHeader == [alg |-> "HS256", typ |-> "JWT"]

\* numbering of the messages header + '.' + payload that are signed
SegmentCode(segment) ==
  IF segment.kind = "json"
  THEN IF segment.value = null THEN 1
       ELSE IF segment.value = JwtHeader THEN 2
       ELSE 8 + (segment.value.userId * 8 + segment.value.iat) * 16 + segment.value.exp
  ELSE IF segment.kind = "text" THEN 3
  ELSE IF segment.kind = "broken" THEN 4
  ELSE 5

Secrets == <<"test-jwt-secret-key-for-testing", "attacker-secret">>

SecretCode(secret) == CHOOSE i \in 1..Len(Secrets) : Secrets[i] = secret

\* crypto.subtle.sign('HMAC', key, data): a message authentication code on
\* which different (secret, message) pairs never agree, two bytes long.  The
\* offset puts the sextets 62 and 63, which base64 and base64url write
\* differently, into the codes of the issued tokens.
HMAC(secret, header, payload) ==
  LET code == ((SecretCode(secret) * 8 + SegmentCode(header)) * 1024 + SegmentCode(payload))
      tag == (54118 + code) % 65536
  IN << tag \div 256, tag % 256 >>

\* crypto.subtle.importKey throws for a secret of length zero
importKeyThrows(secret) == secret = ""

----------------------------------------------------------------------------
(* generateJWT (routes/auth.js) *)

\* 24 * 60 * 60
DaySecs == 2

\* Math.floor(Date.now() / 1000)
Seconds(t) == t \div msPerSec

ParseInt(str) == CASE str = "1" -> 1 [] str = "3" -> 3

expirySeconds(expiresIn) ==
  IF expiresIn = "24h" THEN DaySecs
  ELSE IF expiresIn = "7d" THEN 7 * DaySecs
  ELSE ParseInt(expiresIn)

\* base64url without padding of a byte string
signatureB64(bytes) ==
  CharSegment(removeAll(replaceAll(replaceAll(btoa(bytes), "+", "-"), "/", "_"), "="))

generateJWT(payload, secret, expiresIn, t) ==
  LET jwtPayload == [userId |-> payload.userId,
                     iat |-> Seconds(t),
                     exp |-> Seconds(t) + expirySeconds(expiresIn)]
      headerB64 == JsonSegment(JwtHeader)
      payloadB64 == JsonSegment(jwtPayload)
  IN Token(headerB64, payloadB64, signatureB64(HMAC(secret, headerB64, payloadB64)), <<>>)

----------------------------------------------------------------------------
(* decodeJWT, verifyJWT, authMiddleware (middleware/auth.js) *)

decodeJWT(token) ==
  LET header == parseSegment(token.header)
      payload == parseSegment(token.payload)
  IN IF header.ok /\ payload.ok
     THEN [header |-> header.value, payload |-> payload.value]
     ELSE null

\* the bytes the signature segment stands for
actualSignature(segment) ==
  atob(replaceAll(replaceAll(segment.chars, "-", "+"), "_", "/"))

sameBytes_lengthOnly(expected, actual) == Len(expected) = Len(actual)

sameBytes(expected, actual) ==
  /\ Len(expected) = Len(actual)
  /\ \A i \in 1..Len(expected) : expected[i] = actual[i]

verifyJWT(token, secret) ==
  IF Falsy(token.header) \/ Falsy(token.payload) \/ Falsy(token.signature)
  THEN FALSE
  ELSE IF importKeyThrows(secret) THEN FALSE
  ELSE LET actual == actualSignature(token.signature)
       IN /\ actual.ok
          /\ sameBytes(HMAC(secret, token.header, token.payload), actual.bytes)

createAuthError(code) == [kind |-> "Response", status |-> 401, code |-> code]

\* headers.get gives null for a header the request does not carry
Absent == "(absent)"

NoAuthorization == [scheme |-> Absent]

\* the Authorization header: a scheme, a space and a token ('' is NoToken)
Authorization(scheme, token) == [scheme |-> scheme, token |-> token]

NoToken == [kind |-> "none"]

NoUser == [kind |-> "unset"]

apiKeyValid_any(apiKey, validApiKey) == TRUE

\* apiKey !== validApiKey
apiKeyValid(apiKey, validApiKey) == apiKey = validApiKey

tokenExpired_never(payload, t) == FALSE

tokenExpired_atExpiry(payload, t) == payload.exp # 0 /\ payload.exp <= Seconds(t)

\* decoded.payload.exp && decoded.payload.exp < now
tokenExpired(payload, t) == payload.exp # 0 /\ payload.exp < Seconds(t)

\* the response of authMiddleware and request.user after it
\* a configuration that is taken as given
notConfigured_never(secret) == FALSE

\* !validApiKey, !jwtSecret: undefined or '' in the environment
notConfigured(secret) == secret = ""

authMiddleware(request, environment, t) ==
  LET authorization == request.headers.authorization
      apiKey == request.headers.apiKey
      reject(code) == [response |-> createAuthError(code), user |-> NoUser]
  IN IF request.method = "OPTIONS" THEN [response |-> undefined, user |-> NoUser]
     ELSE IF apiKey # Absent /\ apiKey # ""
     THEN IF notConfigured(environment.ADMIN_API_KEY) THEN reject("CONFIG_ERROR")
          ELSE IF ~apiKeyValid(apiKey, environment.ADMIN_API_KEY) THEN reject("INVALID_API_KEY")
          ELSE [response |-> undefined, user |-> NoUser]
     ELSE IF authorization.scheme # "Bearer" THEN reject("MISSING_AUTH")
     ELSE IF authorization.token = NoToken THEN reject("MISSING_TOKEN")
     ELSE IF notConfigured(environment.JWT_SECRET) THEN reject("CONFIG_ERROR")
     ELSE LET token == authorization.token
              decoded == decodeJWT(token)
          IN IF decoded = null THEN reject("INVALID_TOKEN")
             ELSE IF decoded.payload = null THEN reject("AUTH_ERROR")
             ELSE IF tokenExpired(decoded.payload, t) THEN reject("TOKEN_EXPIRED")
             ELSE IF ~verifyJWT(token, environment.JWT_SECRET) THEN reject("INVALID_SIGNATURE")
             ELSE [response |-> undefined, user |-> decoded.payload]

----------------------------------------------------------------------------
(* Observation of the calls: `last` is the call made in the latest step    *)
(* (NoCall after a step of the clock), run[ip] follows the calls of a      *)
(* client since the call that found no record for it, deadline[ip] is the  *)
(* blockUntil of the latest block set for the client (0 when never).       *)

NoCall == [op |-> "none"]

NoRun == [n |-> 0, start |-> 0, live |-> FALSE]

\* no operation made on the cache yet
NoHistory == [log |-> <<>>, stamp |-> <<>>]

\* no request in flight
NoFlights == <<>>

\* no rateLimiter call counted
NoCalls == <<>>

\* hashPassword(password): the SHA-256 digest, one per password
hashPassword(password) == <<"sha256", password>>

\* the database after the migrations and POST /api/auth/setup: one active
\* admin user, no refresh token, no inquiry
Database ==
  [admin_users |-> <<[id |-> 1, password_hash |-> hashPassword("admin123")]>>,
   refresh_tokens |-> {},
   inquiries |-> <<>>]

\* the refresh tokens generateRefreshToken has made (they never repeat), the
\* ones login has returned, and the ones a logout or a password change has
\* revoked
NoTokens == [minted |-> 0, issued |-> {}, revoked |-> {}]

recordOf(c, key) == IF has(c, key) THEN c.cache[key] ELSE null

\* the run of client k after a rateLimiter call for ip at time t
NextRun(k, ip, isAdmin, before, after, t) ==
  IF k # ip
  THEN (IF has(after, k) THEN run[k] ELSE NoRun)
  ELSE LET r == IF before = null THEN [n |-> 0, start |-> t, live |-> TRUE] ELSE run[k]
       IN IF r.live /\ ~isAdmin /\ t - r.start <= windowMs /\ r.n <= maxRequests
          THEN [r EXCEPT !.n = @ + 1]
          ELSE NoRun

ObserveLimiter(request, t, c, out) ==
  LET ip == getClientIP(request)
  IN /\ last' = [op |-> "rateLimiter", ip |-> ip,
                 isAdmin |-> isAdminEndpoint(request.url),
                 before |-> recordOf(c, ip), response |-> out.response]
     /\ run' = [k \in ClientKeys |->
                  NextRun(k, ip, isAdminEndpoint(request.url), recordOf(c, ip), out.cache, t)]
     /\ deadline' = IF out.response # undefined /\ out.response.code = "RATE_LIMIT_EXCEEDED"
                    THEN [deadline EXCEPT ![ip] = t + blockDuration]
                    ELSE deadline

----------------------------------------------------------------------------
(* Requests *)

Header(cf, xff, xreal, apiKey, authorization) ==
  [cf |-> cf, xff |-> xff, xreal |-> xreal, apiKey |-> apiKey,
   authorization |-> authorization]

Request(method, url, headers) == [method |-> method, url |-> url, headers |-> headers]

AddressHeaders ==
  { Header("203.0.113.5", "", "", "", ""),
    Header("", "203.0.113.5", "", "", ""),
    Header("", "", "203.0.113.5", "", ""),
    Header("", "", "", "", "") }

LimiterUrls ==
  { Url(<<"api", "v1", "test">>, <<>>),
    Url(<<"api", "v1", "admin", "test">>, <<>>) }

LimiterRequests == {Request("GET", u, h) : u \in LimiterUrls, h \in AddressHeaders}

----------------------------------------------------------------------------
(* The route tables and Router.handle of itty-router: the routes are tried *)
(* in the order of registration, a route runs its handler when method and  *)
(* path match, and the first handler that returns a response ends the pass.*)

\* wild is TRUE for a pattern that ends in "*"
Route(method, path, wild, handler) ==
  [method |-> method, path |-> path, wild |-> wild, handler |-> handler]

\* the routes of the worker with the authentication endpoints
Routes == <<
  Route("ALL", <<"health">>, TRUE, "healthRoutes.handle"),
  Route("ALL", <<"api", "health">>, FALSE, "healthRoutes.handle"),
  Route("OPTIONS", <<>>, TRUE, "handleCORS"),
  Route("ALL", <<>>, TRUE, "rateLimiter"),
  Route("GET", <<"api", "videos", ":section">>, FALSE, "videoRoutes.getVideo"),
  Route("GET", <<"api", "images", ":section">>, FALSE, "imageRoutes.getImages"),
  Route("POST", <<"api", "inquiries">>, FALSE, "inquiryRoutes.createInquiry"),
  Route("POST", <<"api", "auth", "login">>, FALSE, "authRoutes.login"),
  Route("POST", <<"api", "auth", "refresh">>, FALSE, "authRoutes.refreshToken"),
  Route("POST", <<"api", "auth", "logout">>, FALSE, "authRoutes.logout"),
  Route("POST", <<"api", "auth", "setup">>, FALSE, "authRoutes.createAdminUser"),
  Route("GET", <<"api", "v1", "videos", ":section">>, FALSE, "videoRoutes.getVideo"),
  Route("GET", <<"api", "v1", "images", ":section">>, FALSE, "imageRoutes.getImages"),
  Route("POST", <<"api", "v1", "inquiries">>, FALSE, "inquiryRoutes.createInquiry"),
  Route("POST", <<"api", "images", "upload">>, FALSE, "imageRoutes.uploadImage"),
  Route("POST", <<"api", "images", "batch-upload">>, FALSE, "imageRoutes.uploadBatchImages"),
  Route("ALL", <<"api", "admin">>, TRUE, "authMiddleware"),
  Route("GET", <<"api", "admin", "profile">>, FALSE, "authRoutes.getProfile"),
  Route("GET", <<"api", "admin", "api-key">>, FALSE, "authRoutes.getAdminApiKey"),
  Route("POST", <<"api", "admin", "regenerate-api-key">>, FALSE, "authRoutes.regenerateApiKey"),
  Route("PUT", <<"api", "admin", "change-password">>, FALSE, "authRoutes.changePassword"),
  Route("POST", <<"api", "admin", "videos", "upload">>, FALSE, "videoRoutes.uploadVideo"),
  Route("POST", <<"api", "admin", "videos", "batch-upload">>, FALSE, "videoRoutes.uploadBatchVideos"),
  Route("PUT", <<"api", "admin", "videos", ":section">>, FALSE, "videoRoutes.updateVideo"),
  Route("DELETE", <<"api", "admin", "videos", ":section">>, FALSE, "videoRoutes.deleteVideo"),
  Route("POST", <<"api", "admin", "images", "upload">>, FALSE, "imageRoutes.uploadImage"),
  Route("POST", <<"api", "admin", "images", "batch-upload">>, FALSE, "imageRoutes.uploadBatchImages"),
  Route("PUT", <<"api", "admin", "images", ":section", ":id">>, FALSE, "imageRoutes.updateImage"),
  Route("DELETE", <<"api", "admin", "images", ":section", ":id">>, FALSE, "imageRoutes.deleteImage"),
  Route("GET", <<"api", "admin", "inquiries">>, FALSE, "inquiryRoutes.getInquiries"),
  Route("GET", <<"api", "admin", "inquiries", ":id">>, FALSE, "inquiryRoutes.getInquiry"),
  Route("PUT", <<"api", "admin", "inquiries", ":id">>, FALSE, "inquiryRoutes.updateInquiry"),
  Route("DELETE", <<"api", "admin", "inquiries", ":id">>, FALSE, "inquiryRoutes.deleteInquiry"),
  Route("ALL", <<"api", "v1", "admin">>, TRUE, "authMiddleware"),
  Route("POST", <<"api", "v1", "admin", "videos", "upload">>, FALSE, "videoRoutes.uploadVideo"),
  Route("POST", <<"api", "v1", "admin", "videos", "batch-upload">>, FALSE, "videoRoutes.uploadBatchVideos"),
  Route("PUT", <<"api", "v1", "admin", "videos", ":section">>, FALSE, "videoRoutes.updateVideo"),
  Route("DELETE", <<"api", "v1", "admin", "videos", ":section">>, FALSE, "videoRoutes.deleteVideo"),
  Route("POST", <<"api", "v1", "admin", "images", "upload">>, FALSE, "imageRoutes.uploadImage"),
  Route("PUT", <<"api", "v1", "admin", "images", ":section", ":id">>, FALSE, "imageRoutes.updateImage"),
  Route("DELETE", <<"api", "v1", "admin", "images", ":section", ":id">>, FALSE, "imageRoutes.deleteImage"),
  Route("GET", <<"api", "v1", "admin", "inquiries">>, FALSE, "inquiryRoutes.getInquiries"),
  Route("GET", <<"api", "v1", "admin", "inquiries", ":id">>, FALSE, "inquiryRoutes.getInquiry"),
  Route("PUT", <<"api", "v1", "admin", "inquiries", ":id">>, FALSE, "inquiryRoutes.updateInquiry"),
  Route("DELETE", <<"api", "v1", "admin", "inquiries", ":id">>, FALSE, "inquiryRoutes.deleteInquiry"),
  Route("ALL", <<>>, TRUE, "notFound") >>

\* the routes of the worker with the v1 API only
RoutesV1 == <<
  Route("ALL", <<"health">>, TRUE, "healthRoutes.handle"),
  Route("OPTIONS", <<>>, TRUE, "handleCORS"),
  Route("ALL", <<>>, TRUE, "rateLimiter"),
  Route("GET", <<"api", "v1", "videos", ":section">>, FALSE, "videoRoutes.getVideo"),
  Route("GET", <<"api", "v1", "images", ":section">>, FALSE, "imageRoutes.getImages"),
  Route("POST", <<"api", "v1", "inquiries">>, FALSE, "inquiryRoutes.createInquiry"),
  Route("ALL", <<"api", "v1", "admin">>, TRUE, "authMiddleware"),
  Route("POST", <<"api", "v1", "admin", "videos", "upload">>, FALSE, "videoRoutes.uploadVideo"),
  Route("PUT", <<"api", "v1", "admin", "videos", ":section">>, FALSE, "videoRoutes.updateVideo"),
  Route("DELETE", <<"api", "v1", "admin", "videos", ":section">>, FALSE, "videoRoutes.deleteVideo"),
  Route("POST", <<"api", "v1", "admin", "images", "upload">>, FALSE, "imageRoutes.uploadImage"),
  Route("PUT", <<"api", "v1", "admin", "images", ":section", ":id">>, FALSE, "imageRoutes.updateImage"),
  Route("DELETE", <<"api", "v1", "admin", "images", ":section", ":id">>, FALSE, "imageRoutes.deleteImage"),
  Route("GET", <<"api", "v1", "admin", "inquiries">>, FALSE, "inquiryRoutes.getInquiries"),
  Route("GET", <<"api", "v1", "admin", "inquiries", ":id">>, FALSE, "inquiryRoutes.getInquiry"),
  Route("PUT", <<"api", "v1", "admin", "inquiries", ":id">>, FALSE, "inquiryRoutes.updateInquiry"),
  Route("DELETE", <<"api", "v1", "admin", "inquiries", ":id">>, FALSE, "inquiryRoutes.deleteInquiry"),
  Route("ALL", <<>>, TRUE, "notFound") >>

\* the table of the router in use; `router` holds its name
routeTable == IF router = "RoutesV1" THEN RoutesV1 ELSE Routes

Middleware == {"healthRoutes.handle", "handleCORS", "rateLimiter", "authMiddleware", "notFound"}

\* the handlers of the video, image, inquiry and auth routes
BusinessHandlers(routes) == {routes[i].handler : i \in 1..Len(routes)} \ Middleware

\* a path without the "/" at its end (an empty last piece)
RECURSIVE trimmed(_)
trimmed(path) ==
  IF path # <<>> /\ path[Len(path)] = "" THEN trimmed(SubSeq(path, 1, Len(path) - 1)) ELSE path

\* ":name" matches one piece that is not empty
pieceMatches(pattern, piece) ==
  IF pattern \in {":section", ":id"} THEN piece # "" ELSE pattern = piece

\* a pattern ending in "*" taken as a plain pattern
matches_noWildcard(route, request) ==
  LET path == trimmed(request.url.path)
  IN /\ route.method \in {"ALL", request.method}
     /\ Len(path) = Len(route.path)
     /\ \A i \in 1..Len(route.path) : pieceMatches(route.path[i], path[i])

matches(route, request) ==
  LET path == trimmed(request.url.path)
  IN /\ route.method \in {"ALL", request.method}
     /\ IF route.wild THEN Len(path) >= Len(route.path) ELSE Len(path) = Len(route.path)
     /\ \A i \in 1..Len(route.path) : pieceMatches(route.path[i], path[i])

HealthPaths ==
  { <<"health">>, <<"health", "">>, <<"health", "detailed">>, <<"health", "database">>,
    <<"health", "cloudinary">> }

\* healthRoutes.handle always answers: a health report or 404
healthHandle(request) ==
  [kind |-> "Response", status |-> IF request.url.path \in HealthPaths THEN 200 ELSE 404,
   code |-> "healthRoutes.handle"]

\* a handler that leaves the preflight to the routes after it
handleCORS_passThrough(request) == undefined

handleCORS(request) ==
  IF request.method = "OPTIONS"
  THEN [kind |-> "Response", status |-> 204, code |-> "handleCORS"]
  ELSE undefined

\* what a handler returns for the request and the cache after it
applyHandler(handler, request, c) ==
  IF handler = "healthRoutes.handle" THEN [response |-> healthHandle(request), cache |-> c]
  ELSE IF handler = "handleCORS" THEN [response |-> handleCORS(request), cache |-> c]
  ELSE IF handler = "rateLimiter" THEN rateLimiter(c, request, now)
  ELSE IF handler = "authMiddleware"
  THEN [response |-> authMiddleware(request, env, now).response, cache |-> c]
  ELSE IF handler = "notFound"
  THEN [response |-> [kind |-> "Response", status |-> 404, code |-> "notFound"], cache |-> c]
  ELSE [response |-> [kind |-> "Response", status |-> 200, code |-> handler], cache |-> c]

\* a pass that goes on after a handler has answered
RECURSIVE handleFrom_fallThrough(_, _, _, _)
handleFrom_fallThrough(i, request, c, trace) ==
  IF i > Len(routeTable) THEN [response |-> undefined, cache |-> c, trace |-> trace]
  ELSE IF ~matches(routeTable[i], request) THEN handleFrom_fallThrough(i + 1, request, c, trace)
  ELSE LET out == applyHandler(routeTable[i].handler, request, c)
           ran == [handler |-> routeTable[i].handler, passed |-> out.response = undefined]
           rest == handleFrom_fallThrough(i + 1, request, out.cache, Append(trace, ran))
       IN IF rest.response = undefined THEN [rest EXCEPT !.response = out.response] ELSE rest

\* Router.handle from route i on; the trace lists the handlers that ran
RECURSIVE handleFrom(_, _, _, _)
handleFrom(i, request, c, trace) ==
  IF i > Len(routeTable) THEN [response |-> undefined, cache |-> c, trace |-> trace]
  ELSE IF ~matches(routeTable[i], request) THEN handleFrom(i + 1, request, c, trace)
  ELSE LET out == applyHandler(routeTable[i].handler, request, c)
           ran == [handler |-> routeTable[i].handler, passed |-> out.response = undefined]
       IN IF out.response # undefined
          THEN [response |-> out.response, cache |-> out.cache, trace |-> Append(trace, ran)]
          ELSE handleFrom(i + 1, request, out.cache, Append(trace, ran))

----------------------------------------------------------------------------
(* Actions *)

\* the configured environment; '' stands for a secret that is not set
mockEnv == [ADMIN_API_KEY |-> "test-admin-api-key", JWT_SECRET |-> "test-jwt-secret-key-for-testing"]

Environments ==
  {[ADMIN_API_KEY |-> k, JWT_SECRET |-> j] :
     k \in {mockEnv.ADMIN_API_KEY, ""}, j \in {mockEnv.JWT_SECRET, ""}}

Init ==
  /\ rateLimitCache = LRUCache(capacity)
  /\ now = 0
  /\ env = mockEnv
  /\ router = "Routes"
  /\ held = NoToken
  /\ last = NoCall
  /\ run = [k \in ClientKeys |-> NoRun]
  /\ deadline = [k \in ClientKeys |-> 0]
  /\ lru = LRUCache(capacity)
  /\ history = NoHistory
  /\ inflight = NoFlights
  /\ calls = NoCalls
  /\ db = Database
  /\ tokens = NoTokens

\* the clock of the worker advances
Tick ==
  /\ now < MaxTime
  /\ now' = now + 1
  /\ last' = NoCall
  /\ UNCHANGED <<rateLimitCache, env, router, held, run, deadline, lru, history, inflight, calls, db, tokens>>

\* a direct call rateLimiter(request)
CallRateLimiter(request) ==
  LET out == rateLimiter(rateLimitCache, request, now)
  IN /\ rateLimitCache' = out.cache
     /\ ObserveLimiter(request, now, rateLimitCache, out)
     /\ UNCHANGED <<now, env, router, held, lru, history, inflight, calls, db, tokens>>

NextLimiter ==
  \/ Tick
  \/ \E request \in LimiterRequests : CallRateLimiter(request)

SpecLimiter == Init /\ [][NextLimiter]_vars

\* the same calls on a cache with room for every client
InitRecency ==
  /\ rateLimitCache = LRUCache(capacity + 1)
  /\ now = 0
  /\ env = mockEnv
  /\ router = "Routes"
  /\ held = NoToken
  /\ last = NoCall
  /\ run = [k \in ClientKeys |-> NoRun]
  /\ deadline = [k \in ClientKeys |-> 0]
  /\ lru = LRUCache(capacity)
  /\ history = NoHistory
  /\ inflight = NoFlights
  /\ calls = NoCalls
  /\ db = Database
  /\ tokens = NoTokens

SpecRecency == InitRecency /\ [][NextLimiter]_vars

----------------------------------------------------------------------------
(* Tokens a client can present: the token it was issued, that token with   *)
(* one part changed, and tokens signed with a secret of its own.           *)

withSignature(token, segment) == [token EXCEPT !.signature = segment]

lastChar(str) == str[Len(str)]

\* the signature with "=" appended
padded(sig) == CharSegment(sig.chars \o <<"=">>)
\* the signature in the alphabet of btoa
standardAlphabet(sig) == CharSegment(replaceAll(replaceAll(sig.chars, "-", "+"), "_", "/"))
\* the signature with an unused bit of its last character set
trailingBit(sig) ==
  CharSegment([sig.chars EXCEPT ![Len(sig.chars)] = B64[Sextet(lastChar(sig.chars)) + 2]])
\* the signature after a blank
spaced(sig) == CharSegment(<<" ">> \o sig.chars)
\* the signature without its last character
truncated(sig) == CharSegment(SubSeq(sig.chars, 1, Len(sig.chars) - 1))
\* the signature with another first character
flipped(sig) == CharSegment([sig.chars EXCEPT ![1] = IF @ = "A" THEN "B" ELSE "A"])

SignatureVariants(sig) ==
  { padded(sig), standardAlphabet(sig), trailingBit(sig), spaced(sig),
    truncated(sig), flipped(sig), CharSegment(<<"!", "!", "!">>),
    EmptySegment, MissingSegment }

\* the payload of the token with a later exp, and with another userId
PayloadVariants(token) ==
  { JsonSegment([token.payload.value EXCEPT !.exp = @ + 1]),
    JsonSegment([token.payload.value EXCEPT !.userId = 2]),
    JsonSegment(null), TextSegment, BrokenSegment, EmptySegment }

TokenVariants(token) ==
  {withSignature(token, v) : v \in SignatureVariants(token.signature)}
    \cup {[token EXCEPT !.payload = v] : v \in PayloadVariants(token)}
    \cup {[token EXCEPT !.header = TextSegment], [token EXCEPT !.rest = <<"x">>]}

\* tokens signed with a secret of the client's own at time t
ForgedTokens(t) ==
  LET own == generateJWT([userId |-> 1], "attacker-secret", "24h", t)
      never == JsonSegment([userId |-> 1, iat |-> 0, exp |-> 0])
  IN { own,
       Token(own.header, never, signatureB64(HMAC("attacker-secret", own.header, never)), <<>>) }

PresentableTokens ==
  ForgedTokens(now) \cup (IF held = NoToken THEN {} ELSE {held} \cup TokenVariants(held))

AuthorizationValues ==
  { NoAuthorization, Authorization("Basic", NoToken), Authorization("Bearer", NoToken) }
    \cup {Authorization("Bearer", token) : token \in PresentableTokens}

ApiKeyValues == {Absent, "", mockEnv.ADMIN_API_KEY, "wrong-api-key"}

AdminUrl == Url(<<"api", "v1", "admin", "test">>, <<>>)

AuthRequests ==
  {Request(m, AdminUrl, Header("192.168.1.1", "", "", k, a)) :
     m \in {"GET", "OPTIONS"}, k \in ApiKeyValues, a \in AuthorizationValues}

----------------------------------------------------------------------------
(* Actions on tokens *)

InitAuth ==
  /\ rateLimitCache = LRUCache(capacity)
  /\ now = 0
  /\ env \in Environments
  /\ router = "Routes"
  /\ held = NoToken
  /\ last = NoCall
  /\ run = [k \in ClientKeys |-> NoRun]
  /\ deadline = [k \in ClientKeys |-> 0]
  /\ lru = LRUCache(capacity)
  /\ history = NoHistory
  /\ inflight = NoFlights
  /\ calls = NoCalls
  /\ db = Database
  /\ tokens = NoTokens

\* login and refreshToken issue the access token: generateJWT(..., '24h');
\* importKey throws when JWT_SECRET is not set
IssueToken ==
  /\ ~importKeyThrows(env.JWT_SECRET)
  /\ held' = generateJWT([userId |-> 1], env.JWT_SECRET, "24h", now)
  /\ last' = [op |-> "generateJWT"]
  /\ UNCHANGED <<rateLimitCache, now, env, router, run, deadline, lru, history, inflight, calls, db, tokens>>

\* a call verifyJWT(token, secret)
CallVerifyJWT(token, secret) ==
  /\ last' = [op |-> "verifyJWT", token |-> token, secret |-> secret,
              result |-> verifyJWT(token, secret)]
  /\ UNCHANGED <<rateLimitCache, now, env, router, held, run, deadline, lru, history, inflight, calls, db, tokens>>

\* a call authMiddleware(request)
CallAuthMiddleware(request) ==
  LET out == authMiddleware(request, env, now)
  IN /\ last' = [op |-> "authMiddleware", request |-> request,
                 response |-> out.response, user |-> out.user]
     /\ UNCHANGED <<rateLimitCache, now, env, router, held, run, deadline, lru, history, inflight, calls, db, tokens>>

NextAuth ==
  \/ Tick
  \/ IssueToken
  \/ \E token \in PresentableTokens, secret \in {mockEnv.JWT_SECRET, "attacker-secret", ""} :
        CallVerifyJWT(token, secret)
  \/ \E request \in AuthRequests : CallAuthMiddleware(request)

SpecAuth == InitAuth /\ [][NextAuth]_vars

----------------------------------------------------------------------------
(* The worker: fetch(request, env, ctx) routes the request *)

\* a token issued at time 0; it is expired from second DaySecs + 1 on
issuedToken == generateJWT([userId |-> 1], mockEnv.JWT_SECRET, "24h", 0)

Credentials ==
  { <<Absent, NoAuthorization>>,
    <<mockEnv.ADMIN_API_KEY, NoAuthorization>>,
    <<"wrong-api-key", NoAuthorization>>,
    <<Absent, Authorization("Bearer", issuedToken)>> }

PublicPaths ==
  { <<"health", "detailed">>, <<"api", "health">>, <<"api", "videos", "hero">>,
    <<"api", "admin">>, <<"nowhere">> }

AdminPaths ==
  { <<"api", "admin", "profile">>, <<"api", "v1", "admin", "inquiries", "7">>,
    <<"api", "v1", "admin", "videos", "upload">> }

Methods == {"GET", "POST", "OPTIONS"}

FetchRequests ==
  {Request(m, Url(path, <<>>), Header("192.168.1.1", "", "", Absent, NoAuthorization)) :
     m \in Methods, path \in PublicPaths}
  \cup {Request(m, Url(path, <<>>), Header("192.168.1.1", "", "", c[1], c[2])) :
          m \in Methods, path \in AdminPaths, c \in Credentials}

\* errorHandler(error, request): the answer when the routing pass throws
errorHandler(request) ==
  [kind |-> "Response", status |-> 500, code |-> "INTERNAL_SERVER_ERROR"]

InitWorker ==
  /\ rateLimitCache = LRUCache(capacity)
  /\ now = 0
  /\ env = mockEnv
  /\ router \in {"Routes", "RoutesV1"}
  /\ held = NoToken
  /\ last = NoCall
  /\ run = [k \in ClientKeys |-> NoRun]
  /\ deadline = [k \in ClientKeys |-> 0]
  /\ lru = LRUCache(capacity)
  /\ history = NoHistory
  /\ inflight = NoFlights
  /\ calls = NoCalls
  /\ db = Database
  /\ tokens = NoTokens

\* fetch(request, env, ctx): router.handle(request), errorHandler when the
\* pass ends without a response
Fetch(request) ==
  LET out == handleFrom(1, request, rateLimitCache, <<>>)
  IN /\ rateLimitCache' = out.cache
     /\ last' = [op |-> "fetch", method |-> request.method, url |-> request.url,
                 trace |-> out.trace,
                 response |-> IF out.response = undefined THEN errorHandler(request)
                              ELSE out.response]
     /\ UNCHANGED <<now, env, router, held, run, deadline, lru, history, inflight, calls, db, tokens>>

Next ==
  \/ Tick
  \/ \E request \in FetchRequests : Fetch(request)

Spec == InitWorker /\ [][Next]_vars

----------------------------------------------------------------------------
(* Preflight requests: OPTIONS requests with any credentials, given to     *)
(* authMiddleware directly and to the worker, under every configuration.   *)

PreflightPaths ==
  { <<"api", "v1", "admin", "test">>, <<"api", "admin", "profile">>,
    <<"api", "videos", "hero">>, <<"health", "detailed">> }

PreflightRequests ==
  {Request("OPTIONS", Url(path, <<>>), Header("192.168.1.1", "", "", k, a)) :
     path \in PreflightPaths,
     k \in {Absent, mockEnv.ADMIN_API_KEY, "wrong-api-key"},
     a \in {NoAuthorization, Authorization("Bearer", issuedToken),
            Authorization("Bearer", [issuedToken EXCEPT !.payload = TextSegment])}}

NextPreflight ==
  \/ Tick
  \/ \E request \in PreflightRequests : CallAuthMiddleware(request)
  \/ \E request \in PreflightRequests : Fetch(request)

SpecPreflight == InitAuth /\ [][NextPreflight]_vars

\* the worker for one visitor: a public route asked with and without
\* "?next=/admin/x", and an admin route asked with the API key
visitor == "192.168.1.1"

ThresholdRequests ==
  {Request("GET", Url(<<"api", "videos", "hero">>, query),
           Header(visitor, "", "", Absent, NoAuthorization)) :
     query \in {<<>>, <<"next=", "admin", "x">>}}
  \cup {Request("GET", Url(<<"api", "admin", "profile">>, <<>>),
                Header(visitor, "", "", mockEnv.ADMIN_API_KEY, NoAuthorization))}

NextThreshold ==
  \/ Tick
  \/ \E request \in ThresholdRequests : Fetch(request)

SpecThreshold == InitWorker /\ [][NextThreshold]_vars

----------------------------------------------------------------------------
(* Requests in flight at the same time.  The worker awaits every handler   *)
(* of the routing pass, so a request can be suspended before and after     *)
(* each handler; a handler that does not await (rateLimiter, handleCORS)   *)
(* runs in one step.  inflight[slot].pc is the number of the next route to *)
(* try (0: no request in the slot).  calls[ip] counts the rateLimiter      *)
(* calls for the client at or after `start`, the start of the window of    *)
(* the client's record, and the calls at the time `at` of the latest call. *)

\* the most requests in flight at one time
MaxInFlight == 2

\* the most rateLimiter calls of a client followed within one window
MaxCalls == 5

Slots == 1..MaxInFlight

Idle == [pc |-> 0]

NoneCounted == [start |-> 0, n |-> 0, at |-> 0, m |-> 0]

ConcurrentRequests ==
  { Request("GET", Url(<<"api", "videos", "hero">>, <<>>),
            Header("203.0.113.5", "", "", Absent, NoAuthorization)),
    Request("GET", Url(<<"api", "v1", "admin", "inquiries", "7">>, <<>>),
            Header("203.0.113.5", "", "", mockEnv.ADMIN_API_KEY, NoAuthorization)) }

InitConcurrent ==
  /\ rateLimitCache = LRUCache(capacity)
  /\ now = 0
  /\ env = mockEnv
  /\ router = "Routes"
  /\ held = NoToken
  /\ last = NoCall
  /\ run = [k \in ClientKeys |-> NoRun]
  /\ deadline = [k \in ClientKeys |-> 0]
  /\ lru = LRUCache(capacity)
  /\ history = NoHistory
  /\ inflight = [slot \in Slots |-> Idle]
  /\ calls = [k \in ClientKeys |-> NoneCounted]
  /\ db = Database
  /\ tokens = NoTokens

\* the first route from i on that matches the request
RECURSIVE nextMatch(_, _)
nextMatch(i, request) ==
  IF i > Len(routeTable) \/ matches(routeTable[i], request) THEN i
  ELSE nextMatch(i + 1, request)

\* the calls counted for the client after a rateLimiter call at time t that
\* leaves the record `after`
counted(before, after, t) ==
  LET atNow == IF before.at = t THEN before.m ELSE 0
  IN [start |-> after.windowStart,
      n |-> IF after.windowStart = before.start THEN before.n + 1 ELSE atNow + 1,
      at |-> t, m |-> atNow + 1]

\* the requests in flight that rateLimiter has not seen yet
waiting == {slot \in Slots : inflight[slot] # Idle /\ inflight[slot].pc = 1}

\* fetch(request, env, ctx) is called: the request enters a free slot
Arrive(slot, request) ==
  /\ inflight[slot] = Idle
  /\ calls[getClientIP(request)].n + Cardinality(waiting) < MaxCalls
  /\ inflight' = [inflight EXCEPT ![slot] = [pc |-> 1, request |-> request]]
  /\ last' = NoCall
  /\ UNCHANGED <<rateLimitCache, now, env, router, held, run, deadline, lru, history, calls, db, tokens>>

\* the request of the slot resumes: the next matching handler runs, and the
\* request leaves when the handler answers
Resume(slot) ==
  /\ inflight[slot] # Idle
  /\ LET request == inflight[slot].request
         i == nextMatch(inflight[slot].pc, request)
         handler == routeTable[i].handler
         out == applyHandler(handler, request, rateLimitCache)
         ip == getClientIP(request)
     IN /\ i <= Len(routeTable)
        /\ rateLimitCache' = out.cache
        /\ inflight' = [inflight EXCEPT ![slot] =
                          IF out.response # undefined THEN Idle
                          ELSE [pc |-> i + 1, request |-> request]]
        /\ IF handler = "rateLimiter"
           THEN /\ last' = [op |-> "rateLimiter", ip |-> ip, response |-> out.response]
                /\ calls' = [calls EXCEPT ![ip] = counted(@, recordOf(out.cache, ip), now)]
           ELSE /\ last' = NoCall
                /\ UNCHANGED calls
  /\ UNCHANGED <<now, env, router, held, run, deadline, lru, history, db, tokens>>

NextConcurrent ==
  \/ Tick
  \/ \E slot \in Slots, request \in ConcurrentRequests : Arrive(slot, request)
  \/ \E slot \in Slots : Resume(slot)

SpecConcurrent == InitConcurrent /\ [][NextConcurrent]_vars

----------------------------------------------------------------------------
(* LRUCache used directly: a cache of any capacity from 1 on, and any      *)
(* sequence of get and put calls on it.  `history` keeps the calls made    *)
(* and, for every key, the number of the last call that put it or found it.*)

\* the largest capacity explored
MaxCapacity == 2

\* the longest sequence of calls explored
MaxOps == 4

Keys == {"a", "b", "c"}

\* a stored value; null is not one of them
Value(n) == [kind |-> "value", n |-> n]

Values == {Value(1), Value(2)}

InitCache ==
  /\ rateLimitCache = LRUCache(capacity)
  /\ now = 0
  /\ env = mockEnv
  /\ router = "Routes"
  /\ held = NoToken
  /\ last = NoCall
  /\ run = [k \in ClientKeys |-> NoRun]
  /\ deadline = [k \in ClientKeys |-> 0]
  /\ lru \in {LRUCache(cap) : cap \in 1..MaxCapacity}
  /\ history = NoHistory
  /\ inflight = NoFlights
  /\ calls = NoCalls
  /\ db = Database
  /\ tokens = NoTokens

\* a call lru.get(key)
CacheGet(key) ==
  LET out == get(lru, key)
      n == Len(history.log) + 1
  IN /\ n <= MaxOps
     /\ lru' = out.lru
     /\ history' = [log |-> Append(history.log, [op |-> "get", key |-> key, value |-> null]),
                    stamp |-> IF out.value # null THEN MapSet(history.stamp, key, n)
                              ELSE history.stamp]
     /\ last' = [op |-> "get", key |-> key, value |-> null, before |-> lru,
                 result |-> out.value]
     /\ UNCHANGED <<rateLimitCache, now, env, router, held, run, deadline, inflight, calls, db, tokens>>

\* a call lru.put(key, value)
CachePut(key, value) ==
  LET n == Len(history.log) + 1
  IN /\ n <= MaxOps
     /\ lru' = put(lru, key, value)
     /\ history' = [log |-> Append(history.log, [op |-> "put", key |-> key, value |-> value]),
                    stamp |-> MapSet(history.stamp, key, n)]
     /\ last' = [op |-> "put", key |-> key, value |-> value, before |-> lru,
                 result |-> null]
     /\ UNCHANGED <<rateLimitCache, now, env, router, held, run, deadline, inflight, calls, db, tokens>>

NextCache ==
  \/ \E key \in Keys : CacheGet(key)
  \/ \E key \in Keys, value \in Values : CachePut(key, value)

SpecCache == InitCache /\ [][NextCache]_vars

----------------------------------------------------------------------------
(* CloudinaryService.generateSignature.  A string is a sequence of pieces  *)
(* (names, "=", "&", digits); two strings are equal exactly when their     *)
(* sequences of pieces are.  A parameter object is the sequence of its     *)
(* key/value entries in insertion order.                                   *)

\* the most entries of a parameter object explored
MaxParams == 2

allowedParams == <<"timestamp", "folder", "public_id", "resource_type", "public_ids">>

NumberValue(n) == [kind |-> "number", n |-> n]

StringValue(chars) == [kind |-> "string", chars |-> chars]

\* `${value}`
String(value) ==
  IF value.kind = "number" THEN (IF value.n = 1 THEN <<"1">> ELSE <<"2">>) ELSE value.chars

\* the characters of a key: "public_ids" starts with "public_id"
keyChars(key) == IF key = "public_ids" THEN <<"public_id", "s">> ELSE <<key>>

\* params[key]
lookup(params, key) ==
  IF \E i \in 1..Len(params) : params[i].key = key
  THEN params[CHOOSE i \in 1..Len(params) : params[i].key = key].value
  ELSE undefined

\* everything in the object is signed
paramsToSign_all(params) == SelectSeq(params, LAMBDA e : e.value \notin {undefined, null})

\* allowedParams.forEach(key => ...): the entries to sign, in the order of
\* the allow-list
paramsToSign(params) ==
  SelectSeq([i \in 1..Len(allowedParams) |->
               [key |-> allowedParams[i], value |-> lookup(params, allowedParams[i])]],
            LAMBDA e : e.value \notin {undefined, null})

\* the order of Array.prototype.sort() on the names that occur
SortOrder == <<"a", "b", "folder", "public_id", "public_ids", "resource_type", "timestamp">>

\* Object.keys(entries).sort()
sortedKeys(entries) ==
  SelectSeq(SortOrder, LAMBDA k : \E i \in 1..Len(entries) : entries[i].key = k)

\* an entry signed by its key alone
pairString_keyOnly(key, value) == keyChars(key) \o <<"=">>

\* `${key}=${paramsToSign[key]}`
pairString(key, value) == keyChars(key) \o <<"=">> \o String(value)

RECURSIVE join(_, _)
join(strings, separator) ==
  IF strings = <<>> THEN <<>>
  ELSE IF Len(strings) = 1 THEN strings[1]
  ELSE strings[1] \o separator \o join(Tail(strings), separator)

stringToSign(params, secret) ==
  LET entries == paramsToSign(params)
      keys == sortedKeys(entries)
  IN join([i \in 1..Len(keys) |-> pairString(keys[i], lookup(entries, keys[i]))], <<"&">>)
       \o secret

\* crypto.subtle.digest('SHA-1', data) written in hexadecimal: a digest on
\* which different strings never agree
sha1Hex(data) == [sha1 |-> data]

generateSignature(params, secret) == sha1Hex(stringToSign(params, secret))

apiSecret == <<"api-secret">>

ParamKeys == {"folder", "public_id", "a", "b"}

ParamValues ==
  { NumberValue(1), NumberValue(2), StringValue(<<"1">>),
    StringValue(<<"1", "&", "public_id", "=", "2">>), null }

Entries == {[key |-> k, value |-> v] : k \in ParamKeys, v \in ParamValues}

\* the parameter objects of up to MaxParams entries
ParamObjects ==
  UNION { {params \in [1..n -> Entries] :
             \A i, j \in 1..n : params[i].key = params[j].key => i = j} : n \in 0..MaxParams }

\* the object with its entries inserted in another order, with one value
\* changed, with one more entry, with one entry less
Variants(params) ==
  LET n == Len(params)
  IN { [i \in 1..n |-> params[f[i]]] :
         f \in {g \in [1..n -> 1..n] : \A i, j \in 1..n : g[i] = g[j] => i = j} }
     \cup { [params EXCEPT ![i].value = v] : i \in 1..n, v \in ParamValues }
     \cup { Append(params, e) : e \in {x \in Entries : n < MaxParams /\ lookup(params, x.key) = undefined} }
     \cup { SubSeq(params, 1, i - 1) \o SubSeq(params, i + 1, n) : i \in 1..n }

\* generateSignature(params, secret) and generateSignature(other, secret)
Sign(params, other, secret) ==
  /\ last' = [op |-> "generateSignature", params |-> params, other |-> other,
              stringToSign |-> stringToSign(params, secret),
              otherStringToSign |-> stringToSign(other, secret),
              signature |-> generateSignature(params, secret),
              otherSignature |-> generateSignature(other, secret)]
  /\ UNCHANGED <<rateLimitCache, now, env, router, held, run, deadline,
                 lru, history, inflight, calls, db, tokens>>

\* one pair of calls in a behaviour
NextSigner ==
  /\ last = NoCall
  /\ \E params \in ParamObjects : \E other \in Variants(params) :
        Sign(params, other, apiSecret)

SpecSigner == Init /\ [][NextSigner]_vars

----------------------------------------------------------------------------
(* Sessions (routes/auth.js): login, refreshToken, logout and              *)
(* changePassword on the tables admin_users and refresh_tokens.  Every     *)
(* database query is awaited, so a handler in flight can be suspended      *)
(* before each of its queries while another one runs; inflight[slot].pc is *)
(* the number of the next query of the handler.  Refresh tokens are        *)
(* numbered in the order generateRefreshToken makes them; the rows stay    *)
(* within their seven days.                                                *)

\* the most refresh tokens made
MaxLogins == 3

Passwords == {"admin123", "NewSecret456"}

createErrorResponse(status, code) == [kind |-> "Response", status |-> status, code |-> code]

createResponse(data) == [kind |-> "Response", status |-> 200, code |-> "", data |-> data]

\* SELECT * FROM admin_users WHERE id = ? AND is_active = 1
getAdminUserById(database, userId) == database.admin_users[userId]

\* a lookup that does not look at is_active
verifyRefreshToken_anyRow(database, refreshToken) ==
  LET found == {row \in database.refresh_tokens : row.token = refreshToken}
  IN IF found = {} THEN null ELSE CHOOSE row \in found : TRUE

\* SELECT * FROM refresh_tokens WHERE token = ? AND expires_at > now AND
\* is_active = 1
verifyRefreshToken(database, refreshToken) ==
  LET found == {row \in database.refresh_tokens :
                  row.token = refreshToken /\ row.is_active = 1}
  IN IF found = {} THEN null ELSE CHOOSE row \in found : TRUE

\* UPDATE refresh_tokens SET is_active = 0 WHERE token = ?
revokeRefreshToken(database, refreshToken) ==
  [database EXCEPT !.refresh_tokens =
     {IF row.token = refreshToken THEN [row EXCEPT !.is_active = 0] ELSE row : row \in @}]

\* DELETE FROM refresh_tokens WHERE user_id = ?
deleteRefreshTokens(database, userId) ==
  [database EXCEPT !.refresh_tokens = {row \in @ : row.user_id # userId}]

\* INSERT INTO refresh_tokens (user_id, token, expires_at) VALUES (?, ?, ...)
insertRefreshToken(database, userId, refreshToken) ==
  [database EXCEPT !.refresh_tokens =
     @ \cup {[user_id |-> userId, token |-> refreshToken, is_active |-> 1]}]

\* the requests a client can send: a login, a refresh or a logout with a
\* refresh token a login has returned, a password change of the admin
SessionRequests ==
  {[op |-> "login", password |-> password] : password \in Passwords}
    \cup {[op |-> op, refreshToken |-> token] :
            op \in {"refreshToken", "logout"}, token \in tokens.issued}
    \cup {[op |-> "changePassword", userId |-> 1, currentPassword |-> current,
           newPassword |-> new] : current \in Passwords, new \in Passwords}

InitSessions ==
  /\ rateLimitCache = LRUCache(capacity)
  /\ now = 0
  /\ env = mockEnv
  /\ router = "Routes"
  /\ held = NoToken
  /\ last = NoCall
  /\ run = [k \in ClientKeys |-> NoRun]
  /\ deadline = [k \in ClientKeys |-> 0]
  /\ lru = LRUCache(capacity)
  /\ history = NoHistory
  /\ inflight = [slot \in Slots |-> Idle]
  /\ calls = NoCalls
  /\ db = Database
  /\ tokens = NoTokens

\* the handler in the slot is the one named and is about to run query pc
at(slot, op, pc) ==
  /\ inflight[slot] # Idle
  /\ inflight[slot].request.op = op
  /\ inflight[slot].pc = pc

\* the logins that have not made their refresh token yet
loginsToCome == {slot \in Slots : at(slot, "login", 1)}

\* the handler of the route is called: the request enters a free slot
Begin(slot, request) ==
  /\ inflight[slot] = Idle
  /\ request.op = "login" => tokens.minted + Cardinality(loginsToCome) < MaxLogins
  /\ inflight' = [inflight EXCEPT ![slot] =
       [pc |-> 1, request |-> request, refreshToken |-> 0,
        revokedBefore |-> request.op = "refreshToken"
                            /\ request.refreshToken \in tokens.revoked]]
  /\ last' = NoCall
  /\ UNCHANGED <<rateLimitCache, now, env, router, held, run, deadline, lru, history,
                 calls, db, tokens>>

\* the handler goes on to its next query
proceed(slot) ==
  /\ inflight' = [inflight EXCEPT ![slot].pc = @ + 1]
  /\ last' = NoCall

\* the handler returns the response
answer(slot, response) ==
  /\ inflight' = [inflight EXCEPT ![slot] = Idle]
  /\ last' = [op |-> inflight[slot].request.op,
              revokedBefore |-> inflight[slot].revokedBefore, response |-> response]

\* login: getAdminUser, the password check, generateJWT, generateRefreshToken
login_getAdminUser(slot) ==
  /\ at(slot, "login", 1)
  /\ IF hashPassword(inflight[slot].request.password) # db.admin_users[1].password_hash
     THEN /\ answer(slot, createErrorResponse(401, "INVALID_CREDENTIALS"))
          /\ UNCHANGED tokens
     ELSE /\ inflight' = [inflight EXCEPT ![slot].pc = 2,
                                          ![slot].refreshToken = tokens.minted + 1]
          /\ last' = NoCall
          /\ tokens' = [tokens EXCEPT !.minted = @ + 1]
  /\ UNCHANGED <<rateLimitCache, now, env, router, held, run, deadline, lru, history,
                 calls, db>>

\* storeRefreshToken, first query: the refresh tokens of the user are deleted
storeRefreshToken_delete(slot) ==
  /\ at(slot, "login", 2)
  /\ db' = deleteRefreshTokens(db, 1)
  /\ proceed(slot)
  /\ UNCHANGED <<rateLimitCache, now, env, router, held, run, deadline, lru, history,
                 calls, tokens>>

\* storeRefreshToken, second query: the new refresh token is stored
storeRefreshToken_insert(slot) ==
  /\ at(slot, "login", 3)
  /\ db' = insertRefreshToken(db, 1, inflight[slot].refreshToken)
  /\ proceed(slot)
  /\ UNCHANGED <<rateLimitCache, now, env, router, held, run, deadline, lru, history,
                 calls, tokens>>

\* login: last_login is updated and the tokens are returned
login_respond(slot) ==
  /\ at(slot, "login", 4)
  /\ tokens' = [tokens EXCEPT !.issued = @ \cup {inflight[slot].refreshToken}]
  /\ answer(slot, createResponse([accessToken |-> generateJWT([userId |-> 1], env.JWT_SECRET, "24h", now),
                                  refreshToken |-> inflight[slot].refreshToken]))
  /\ UNCHANGED <<rateLimitCache, now, env, router, held, run, deadline, lru, history,
                 calls, db>>

\* refreshToken: verifyRefreshToken
refreshToken_verify(slot) ==
  /\ at(slot, "refreshToken", 1)
  /\ IF verifyRefreshToken(db, inflight[slot].request.refreshToken) = null
     THEN answer(slot, createErrorResponse(401, "INVALID_REFRESH_TOKEN"))
     ELSE proceed(slot)
  /\ UNCHANGED <<rateLimitCache, now, env, router, held, run, deadline, lru, history,
                 calls, db, tokens>>

\* refreshToken: getAdminUserById, generateJWT, the access token is returned
refreshToken_respond(slot) ==
  /\ at(slot, "refreshToken", 2)
  /\ answer(slot, createResponse([accessToken |-> generateJWT([userId |-> 1], env.JWT_SECRET, "24h", now)]))
  /\ UNCHANGED <<rateLimitCache, now, env, router, held, run, deadline, lru, history,
                 calls, db, tokens>>

\* logout: revokeRefreshToken
logout(slot) ==
  /\ at(slot, "logout", 1)
  /\ db' = revokeRefreshToken(db, inflight[slot].request.refreshToken)
  /\ tokens' = [tokens EXCEPT !.revoked = @ \cup {inflight[slot].request.refreshToken}]
  /\ answer(slot, createResponse([message |-> "Logged out successfully"]))
  /\ UNCHANGED <<rateLimitCache, now, env, router, held, run, deadline, lru, history, calls>>

\* changePassword: getAdminUserById and the check of the current password
changePassword_getUser(slot) ==
  /\ at(slot, "changePassword", 1)
  /\ IF hashPassword(inflight[slot].request.currentPassword)
          # getAdminUserById(db, inflight[slot].request.userId).password_hash
     THEN answer(slot, createErrorResponse(400, "INVALID_CURRENT_PASSWORD"))
     ELSE proceed(slot)
  /\ UNCHANGED <<rateLimitCache, now, env, router, held, run, deadline, lru, history,
                 calls, db, tokens>>

\* changePassword: UPDATE admin_users SET password_hash = ?
changePassword_update(slot) ==
  /\ at(slot, "changePassword", 2)
  /\ db' = [db EXCEPT !.admin_users[inflight[slot].request.userId].password_hash =
                        hashPassword(inflight[slot].request.newPassword)]
  /\ proceed(slot)
  /\ UNCHANGED <<rateLimitCache, now, env, router, held, run, deadline, lru, history,
                 calls, tokens>>

\* changePassword: DELETE FROM refresh_tokens WHERE user_id = ?
changePassword_revoke(slot) ==
  /\ at(slot, "changePassword", 3)
  /\ db' = deleteRefreshTokens(db, inflight[slot].request.userId)
  /\ tokens' = [tokens EXCEPT !.revoked =
       @ \cup {row.token : row \in {r \in db.refresh_tokens :
                                      r.user_id = inflight[slot].request.userId}}]
  /\ answer(slot, createResponse([message |-> "Password changed successfully. Please log in again."]))
  /\ UNCHANGED <<rateLimitCache, now, env, router, held, run, deadline, lru, history, calls>>

NextSessions ==
  \/ \E slot \in Slots, request \in SessionRequests : Begin(slot, request)
  \/ \E slot \in Slots : login_getAdminUser(slot)
  \/ \E slot \in Slots : storeRefreshToken_delete(slot)
  \/ \E slot \in Slots : storeRefreshToken_insert(slot)
  \/ \E slot \in Slots : login_respond(slot)
  \/ \E slot \in Slots : refreshToken_verify(slot)
  \/ \E slot \in Slots : refreshToken_respond(slot)
  \/ \E slot \in Slots : logout(slot)
  \/ \E slot \in Slots : changePassword_getUser(slot)
  \/ \E slot \in Slots : changePassword_update(slot)
  \/ \E slot \in Slots : changePassword_revoke(slot)

SpecSessions == InitSessions /\ [][NextSessions]_vars

----------------------------------------------------------------------------
(* Inquiries (routes/inquiries.js, services/database.js): createInquiry    *)
(* and updateInquiry on the table inquiries.  db.inquiries[id] is the row  *)
(* with that id, kept by its status and priority.  updateInquiry awaits    *)
(* getInquiry, then DatabaseService.updateInquiry (the UPDATE and a second *)
(* getInquiry); a handler in flight can be suspended before each of them.  *)
(* A handler that throws leaves with the error it threw.                   *)

\* the most rows of the table inquiries
MaxInquiries == 1

Statuses == {"pending", "in_progress", "completed", "cancelled"}

STATUS_TRANSITIONS ==
  [status \in Statuses |->
     CASE status = "pending" -> {"in_progress", "cancelled"}
       [] status = "in_progress" -> {"completed", "cancelled", "pending"}
       [] status = "completed" -> {"in_progress"}
       [] status = "cancelled" -> {"pending"}]

\* !(validatedUpdates.status && validatedUpdates.status !== currentInquiry.status)
\* || allowedTransitions.has(validatedUpdates.status)
transitionAllowed(current, updates) ==
  \/ "status" \notin DOMAIN updates
  \/ updates.status = current.status
  \/ current.status \in DOMAIN STATUS_TRANSITIONS
       /\ updates.status \in STATUS_TRANSITIONS[current.status]

\* an error thrown by a handler
Thrown(name) == [kind |-> "Error", name |-> name]

\* createResponse(data, status, meta) of routes/inquiries.js
createInquiryResponse(data, status) ==
  [kind |-> "Response", status |-> status, code |-> "", data |-> data]

\* calculateAutoPriority(validatedData) for a description without the urgent
\* and the important keywords
calculateAutoPriority == 3

\* SELECT * FROM inquiries WHERE id = ?
getInquiry(database, id) ==
  IF id \in 1..Len(database.inquiries) THEN database.inquiries[id] ELSE null

\* UPDATE inquiries SET <the fields of updates> WHERE id = ?
updateRow(row, updates) ==
  [field \in DOMAIN row |-> IF field \in DOMAIN updates THEN updates[field] ELSE row[field]]

\* the bodies a client can send to PUT /api/admin/inquiries/:id
Updates ==
  {[status |-> status] : status \in Statuses}
    \cup {[status |-> status, priority |-> 1] : status \in Statuses}
    \cup {[priority |-> 1], <<>>}

InquiryRequests ==
  {[op |-> "updateInquiry", inquiryId |-> id, updates |-> updates] :
     id \in 1..MaxInquiries, updates \in Updates}

\* POST /api/inquiries: the row is inserted with status 'pending'
createInquiry ==
  /\ Len(db.inquiries) < MaxInquiries
  /\ db' = [db EXCEPT !.inquiries =
              Append(@, [status |-> "pending", priority |-> calculateAutoPriority])]
  /\ last' = [op |-> "createInquiry", inquiryId |-> Len(db.inquiries) + 1,
              response |-> createInquiryResponse(
                 [status |-> "pending", priority |-> calculateAutoPriority], 201)]
  /\ UNCHANGED <<rateLimitCache, now, env, router, held, run, deadline, lru, history,
                 inflight, calls, tokens>>

\* updateInquiry is called: the request enters a free slot
Call(slot, request) ==
  /\ inflight[slot] = Idle
  /\ inflight' = [inflight EXCEPT ![slot] =
                    [pc |-> 1, request |-> request, currentInquiry |-> null]]
  /\ last' = NoCall
  /\ UNCHANGED <<rateLimitCache, now, env, router, held, run, deadline, lru, history,
                 calls, db, tokens>>

\* the handler leaves with a response or with the error it throws
leave(slot, outcome) ==
  /\ inflight' = [inflight EXCEPT ![slot] = Idle]
  /\ last' = [op |-> "updateInquiry", request |-> inflight[slot].request,
              currentInquiry |-> inflight[slot].currentInquiry, response |-> outcome]

\* updateInquiry: getInquiry and the check of the status transition
updateInquiry_getInquiry(slot) ==
  /\ at(slot, "updateInquiry", 1)
  /\ LET request == inflight[slot].request
         currentInquiry == getInquiry(db, request.inquiryId)
     IN IF currentInquiry = null
        THEN leave(slot, Thrown("NotFoundError"))
        ELSE IF ~transitionAllowed(currentInquiry, request.updates)
        THEN /\ inflight' = [inflight EXCEPT ![slot] = Idle]
             /\ last' = [op |-> "updateInquiry", request |-> request,
                         currentInquiry |-> currentInquiry,
                         response |-> Thrown("ValidationError")]
        ELSE /\ inflight' = [inflight EXCEPT ![slot].pc = 2,
                                             ![slot].currentInquiry = currentInquiry]
             /\ last' = NoCall
  /\ UNCHANGED <<rateLimitCache, now, env, router, held, run, deadline, lru, history,
                 calls, db, tokens>>

\* DatabaseService.updateInquiry: the UPDATE of the fields sent
updateInquiry_update(slot) ==
  /\ at(slot, "updateInquiry", 2)
  /\ LET request == inflight[slot].request
         id == request.inquiryId
     IN IF DOMAIN request.updates = {}
        THEN /\ leave(slot, Thrown("DatabaseError"))
             /\ UNCHANGED db
        ELSE /\ db' = [db EXCEPT !.inquiries[id] = updateRow(@, request.updates)]
             /\ inflight' = [inflight EXCEPT ![slot].pc = 3]
             /\ last' = [op |-> "db.updateInquiry", request |-> request,
                         currentInquiry |-> inflight[slot].currentInquiry,
                         before |-> db.inquiries[id],
                         after |-> updateRow(db.inquiries[id], request.updates)]
  /\ UNCHANGED <<rateLimitCache, now, env, router, held, run, deadline, lru, history,
                 calls, tokens>>

\* DatabaseService.updateInquiry: getInquiry(id); the row is returned
updateInquiry_respond(slot) ==
  /\ at(slot, "updateInquiry", 3)
  /\ leave(slot, createInquiryResponse(getInquiry(db, inflight[slot].request.inquiryId), 200))
  /\ UNCHANGED <<rateLimitCache, now, env, router, held, run, deadline, lru, history,
                 calls, db, tokens>>

NextInquiries ==
  \/ createInquiry
  \/ \E slot \in Slots, request \in InquiryRequests : Call(slot, request)
  \/ \E slot \in Slots : updateInquiry_getInquiry(slot)
  \/ \E slot \in Slots : updateInquiry_update(slot)
  \/ \E slot \in Slots : updateInquiry_respond(slot)

SpecInquiries == InitSessions /\ [][NextInquiries]_vars

----------------------------------------------------------------------------
(* Properties of rateLimiter, checked under SpecLimiter *)

Denied(response, code) ==
  /\ response # undefined
  /\ response.status = 429
  /\ response.code = code

\* C1: counting the calls of a client to public paths from the call that
\* found no record for it, all within one window: each of the first
\* maxRequests calls returns undefined, and call maxRequests + 1 returns
\* 429 RATE_LIMIT_EXCEEDED with a Retry-After header.
C1_FirstCallsAllowedThenDenied ==
  (last.op = "rateLimiter" /\ run[last.ip].live) =>
     /\ run[last.ip].n <= maxRequests => last.response = undefined
     /\ run[last.ip].n = maxRequests + 1 =>
          /\ Denied(last.response, "RATE_LIMIT_EXCEEDED")
          /\ last.response.RetryAfterHeader >= 1

C1_Witness ==
  /\ last.op = "rateLimiter"
  /\ run[last.ip].live
  /\ run[last.ip].n = maxRequests + 1
  /\ Denied(last.response, "RATE_LIMIT_EXCEEDED")

\* C2: once a client has been blocked with deadline blockUntil, every
\* rateLimiter call for it at a time now < blockUntil is denied, whatever
\* calls were made for this or other clients in between.
C2_BlockedStaysDenied ==
  (last.op = "rateLimiter" /\ now < deadline[last.ip]) => last.response # undefined

BetweenLimits ==
  /\ last.op = "rateLimiter"
  /\ last.before # null
  /\ ~isBlocked(last.before, now)
  /\ ~windowExpired(last.before, now)
  /\ last.before.count + 1 > maxRequests
  /\ last.before.count + 1 <= adminMaxRequests

\* C4: with an incremented count above maxRequests and at most
\* adminMaxRequests, a request to an admin path is allowed and a request to
\* a public path is denied.
C4_AdminThreshold ==
  BetweenLimits =>
    IF last.isAdmin
    THEN last.response = undefined
    ELSE Denied(last.response, "RATE_LIMIT_EXCEEDED")

C4_Witness ==
  /\ BetweenLimits
  /\ last.isAdmin
  /\ last.response = undefined
  /\ rateLimitCache.cache[last.ip].count = adminMaxRequests

----------------------------------------------------------------------------
(* Properties of authMiddleware, verifyJWT and generateJWT, checked under  *)
(* SpecAuth                                                                *)

AuthCall == last.op = "authMiddleware" /\ last.request.method # "OPTIONS"

Rejected(response, code) ==
  /\ response # undefined
  /\ response.status = 401
  /\ response.code = code

\* the token decodes, its exp has not passed, its signature verifies
Acceptable(authorization) ==
  /\ authorization.scheme = "Bearer"
  /\ authorization.token # NoToken
  /\ decodeJWT(authorization.token) # null
  /\ decodeJWT(authorization.token).payload # null =>
       ~(decodeJWT(authorization.token).payload.exp < Seconds(now))
  /\ verifyJWT(authorization.token, env.JWT_SECRET)

\* C5: a request other than OPTIONS without X-API-Key header passes exactly
\* when its Authorization header is 'Bearer <token>' with a token that
\* decodes, has not expired and verifies against JWT_SECRET; it gets a 401
\* response otherwise; request.user is the decoded payload exactly when it
\* passes.
C5_BearerDecides ==
  (AuthCall /\ last.request.headers.apiKey = Absent) =>
    LET authorization == last.request.headers.authorization
    IN IF Acceptable(authorization)
       THEN /\ last.response = undefined
            /\ last.user = decodeJWT(authorization.token).payload
       ELSE /\ last.response # undefined
            /\ last.response.status = 401
            /\ last.user = NoUser

C5_Witness ==
  /\ AuthCall
  /\ last.request.headers.apiKey = Absent
  /\ held # NoToken
  /\ last.request.headers.authorization = Authorization("Bearer", held)
  /\ last.response = undefined
  /\ last.user = held.payload.value

VerifyCall == last.op = "verifyJWT" /\ last.secret # ""

\* the base64url encoding without padding of the HMAC of header.payload
expectedSegment(token, secret) == signatureB64(HMAC(secret, token.header, token.payload))

\* C9 as claimed: verifyJWT(token, secret) is true exactly when the third
\* segment of the token is the base64url encoding of
\* HMAC-SHA256(secret, header + '.' + payload).
C9_ExactlyTheEncoding ==
  VerifyCall => (last.result <=> last.token.signature = expectedSegment(last.token, last.secret))

urlChar(ch) == IF ch = "+" THEN "-" ELSE IF ch = "/" THEN "_" ELSE ch

stdChar(ch) == IF ch = "-" THEN "+" ELSE IF ch = "_" THEN "/" ELSE ch

\* a signature segment without blanks and "=", in the base64url alphabet,
\* with the bits of its last character that encode no byte cleared
canonical(segment) ==
  LET str == [i \in 1..Len(removeAll(removeAll(segment.chars, " "), "=")) |->
                urlChar(removeAll(removeAll(segment.chars, " "), "=")[i])]
      unused == IF Len(str) % 4 = 3 THEN 4 ELSE IF Len(str) % 4 = 2 THEN 16 ELSE 1
  IN IF str = <<>> THEN CharSegment(str)
     ELSE CharSegment([str EXCEPT ![Len(str)] =
                         urlChar(B64[(Sextet(stdChar(@)) \div unused) * unused + 1])])

\* C9 (amended): verifyJWT(token, secret) is true when header and payload
\* are not empty and the third segment is the base64url encoding of
\* HMAC-SHA256(secret, header + '.' + payload), and when it is true the third
\* segment is that encoding up to "=" padding, blanks, the "+" "/" alphabet
\* and the unused bits of its last character; it is true for the token of
\* generateJWT with the same secret, false with another secret and false
\* when the payload segment of that token is altered.
C9_VerifyJWT ==
  VerifyCall =>
    /\ (/\ last.token.signature = expectedSegment(last.token, last.secret)
        /\ ~Falsy(last.token.header) /\ ~Falsy(last.token.payload)) => last.result
    /\ last.result => canonical(last.token.signature) = expectedSegment(last.token, last.secret)
    /\ (held # NoToken /\ last.token = held) => (last.result <=> last.secret = env.JWT_SECRET)
    /\ (held # NoToken /\ last.token \in {[held EXCEPT !.payload = v] : v \in PayloadVariants(held)})
         => ~last.result

C9_Witness ==
  /\ VerifyCall
  /\ last.result
  /\ held # NoToken
  /\ last.token.signature = padded(held.signature)
  /\ last.token.payload = held.payload

\* C10: a token of generateJWT carries iat = the second of issue and
\* exp = iat + 24 hours; verifyJWT of the token with JWT_SECRET is true
\* also after exp; authMiddleware passes a request whose only credential is
\* this token exactly while now <= exp in seconds, and answers TOKEN_EXPIRED
\* after.
C10_Expiry ==
  /\ last.op = "generateJWT" =>
       /\ held.payload.value.iat = Seconds(now)
       /\ held.payload.value.exp = held.payload.value.iat + DaySecs
  /\ (last.op = "verifyJWT" /\ held # NoToken /\ last.token = held
        /\ last.secret = env.JWT_SECRET) => last.result
  /\ (AuthCall /\ last.request.headers.apiKey = Absent /\ held # NoToken
        /\ last.request.headers.authorization = Authorization("Bearer", held)) =>
       IF Seconds(now) <= held.payload.value.exp
       THEN last.response = undefined
       ELSE Rejected(last.response, "TOKEN_EXPIRED")

C10_Witness ==
  /\ AuthCall
  /\ last.request.headers.apiKey = Absent
  /\ held # NoToken
  /\ last.request.headers.authorization = Authorization("Bearer", held)
  /\ held.payload.value.exp < Seconds(now)
  /\ verifyJWT(held, env.JWT_SECRET)
  /\ Rejected(last.response, "TOKEN_EXPIRED")

----------------------------------------------------------------------------
(* Properties of the routing pass, checked under Spec *)

FetchCall == last.op = "fetch"

fetched == [method |-> last.method, url |-> last.url]

\* the path is under /api/admin/ or /api/v1/admin/
UnderAdmin(path) ==
  \/ Len(path) >= 3 /\ SubSeq(path, 1, 2) = <<"api", "admin">>
  \/ Len(path) >= 4 /\ SubSeq(path, 1, 3) = <<"api", "v1", "admin">>

ranBusiness(i) == last.trace[i].handler \in BusinessHandlers(routeTable)

authPassedBefore(i) ==
  \E j \in 1..(i - 1) : last.trace[j].handler = "authMiddleware" /\ last.trace[j].passed

\* C7: in the routing pass of a non-OPTIONS request whose path is under
\* /api/admin/ or /api/v1/admin/, a business handler runs only after
\* authMiddleware has let the request pass earlier in the same pass.
C7_AdminBehindAuth ==
  (FetchCall /\ last.method # "OPTIONS" /\ UnderAdmin(last.url.path))
    => \A i \in 1..Len(last.trace) : ranBusiness(i) => authPassedBefore(i)

\* C7 witness: an admin request that reached its business handler
C7_Witness ==
  /\ FetchCall /\ last.method # "OPTIONS" /\ UnderAdmin(last.url.path)
  /\ \E i \in 1..Len(last.trace) : ranBusiness(i) /\ authPassedBefore(i)
  /\ last.response.status = 200

limitedFirst ==
  /\ last.trace # <<>>
  /\ last.trace[1].handler = "rateLimiter"
  /\ (~last.trace[1].passed => Len(last.trace) = 1 /\ last.response.status = 429)

\* C8 as stated: every request passes through rateLimiter before any other
\* middleware or handler answers, and a request it denies reaches neither
\* authMiddleware nor a business handler.
C8_EveryRequestLimitedFirst == FetchCall => limitedFirst

\* a health route matches the request
healthRequest(request) ==
  \E i \in 1..Len(routeTable) :
    routeTable[i].handler = "healthRoutes.handle" /\ matches(routeTable[i], request)

\* C8 amended: every request that is neither an OPTIONS request nor matched
\* by a health route passes through rateLimiter before any other middleware
\* or handler, and a request it denies (429) reaches neither authMiddleware
\* nor a business handler.
C8_LimitedFirst ==
  (FetchCall /\ last.method # "OPTIONS" /\ ~healthRequest(fetched)) => limitedFirst

\* C8 witness: a request to an admin path denied by rateLimiter
C8_Witness ==
  /\ FetchCall /\ last.method # "OPTIONS" /\ ~healthRequest(fetched)
  /\ UnderAdmin(last.url.path)
  /\ last.trace = <<[handler |-> "rateLimiter", passed |-> FALSE]>>
  /\ last.response.status = 429

----------------------------------------------------------------------------
(* Properties of LRUCache, checked under SpecCache *)

stored(c) == DOMAIN c.cache

listed(c) == {c.list[i] : i \in 1..Len(c.list)}

\* C11: after any sequence of get and put on a cache of capacity >= 1 the
\* number of stored entries is at most the capacity, no key is in the
\* recency list twice, and the recency list holds exactly the keys of the
\* map.
C11_CacheBounded ==
  /\ Cardinality(stored(lru)) <= lru.capacity
  /\ \A i, j \in 1..Len(lru.list) : lru.list[i] = lru.list[j] => i = j
  /\ listed(lru) = stored(lru)

\* C11 witness: a full cache after a get that hit and a put that evicted
C11_Witness ==
  /\ Cardinality(stored(lru)) = lru.capacity
  /\ last.op = "put"
  /\ ~(stored(last.before) \subseteq stored(lru))
  /\ \E i \in 1..Len(history.log) : history.log[i].op = "get" /\ history.stamp[history.log[i].key] >= i

removed == stored(last.before) \ stored(lru)

\* the calls made are puts of n different keys and nothing else
distinctPuts(n) ==
  /\ Len(history.log) = n
  /\ \A i \in 1..n : history.log[i].op = "put"
  /\ \A i, j \in 1..n : history.log[i].key = history.log[j].key => i = j

opsAre(ops) ==
  /\ Len(history.log) = Len(ops)
  /\ \A i \in 1..Len(ops) :
       history.log[i].op = ops[i][1] /\ history.log[i].key = ops[i][2]

\* C12: put removes an entry only when its key is new and the cache is at
\* capacity, and the entry removed is the one whose last get-hit or put is
\* the oldest; put on a stored key overwrites the value and makes the key
\* most-recently-used without removing anything.  After capacity + 1 puts of
\* different keys and no get the first key misses; with capacity 2, put(a),
\* put(b), get(a), put(c) leaves a and c.
C12_PutEvictsOldest ==
  /\ last.op = "put" =>
       /\ lru.cache[last.key] = last.value
       /\ lru.list[1] = last.key
       /\ removed # {} =>
            /\ ~has(last.before, last.key)
            /\ Cardinality(stored(last.before)) = lru.capacity
            /\ Cardinality(removed) = 1
            /\ \A gone \in removed, kept \in stored(last.before) \ removed :
                 history.stamp[gone] < history.stamp[kept]
       /\ has(last.before, last.key) => removed = {}
  /\ distinctPuts(lru.capacity + 1) => get(lru, history.log[1].key).value = null
  /\ (lru.capacity = 2 /\ opsAre(<< <<"put", "a">>, <<"put", "b">>, <<"get", "a">>, <<"put", "c">> >>))
       => stored(lru) = {"a", "c"}

\* C12 witness: capacity 2, put(a), put(b), get(a), put(c) has evicted b
C12_Witness ==
  /\ lru.capacity = 2
  /\ opsAre(<< <<"put", "a">>, <<"put", "b">>, <<"get", "a">>, <<"put", "c">> >>)
  /\ removed = {"b"}

\* the value of the latest put of the key among the calls made
latestPut(key) ==
  LET puts == {i \in 1..Len(history.log) :
                 history.log[i].op = "put" /\ history.log[i].key = key}
  IN history.log[CHOOSE i \in puts : \A j \in puts : j <= i].value

\* C13: get never changes which keys are stored or their values; for a
\* stored key it returns the value of the latest put of that key and only
\* moves the key to most-recently-used; for a key that is not stored it
\* returns null and leaves contents and recency order as they were.
C13_GetFrame ==
  last.op = "get" =>
    /\ lru.cache = last.before.cache
    /\ IF has(last.before, last.key)
       THEN /\ last.result = latestPut(last.key)
            /\ lru.list = <<last.key>> \o SelectSeq(last.before.list, LAMBDA k : k # last.key)
       ELSE /\ last.result = null
            /\ lru = last.before

\* C13 witness: a get that found a key put twice, behind another key
C13_Witness ==
  /\ last.op = "get"
  /\ has(last.before, last.key)
  /\ last.before.list[1] # last.key
  /\ last.result = Value(2)
  /\ \E i \in 1..Len(history.log) :
       /\ history.log[i] = [op |-> "put", key |-> last.key, value |-> Value(1)]

----------------------------------------------------------------------------
(* Properties of generateSignature, checked under SpecSigner *)

SignCall == last.op = "generateSignature"

allowed(key) == \E i \in 1..Len(allowedParams) : allowedParams[i] = key

keysOf(params) == {params[i].key : i \in 1..Len(params)}

\* the two objects agree on every allow-listed parameter
agreeOnAllowed(p, q) ==
  \A i \in 1..Len(allowedParams) : lookup(p, allowedParams[i]) = lookup(q, allowedParams[i])

\* C14: parameters outside the allow-list never enter the signature: two
\* parameter objects that differ only outside the allow-list (a parameter
\* added, removed or changed) have the same string-to-sign and signature.
C14_OnlyAllowedSigned ==
  (SignCall /\ agreeOnAllowed(last.params, last.other)) =>
    /\ last.stringToSign = last.otherStringToSign
    /\ last.signature = last.otherSignature

\* C14 witness: an object with a signed parameter, and the same object with a
\* parameter outside the allow-list added
C14_Witness ==
  /\ SignCall
  /\ lookup(last.params, "folder") = NumberValue(1)
  /\ lookup(last.params, "a") = undefined
  /\ lookup(last.other, "a") = NumberValue(2)
  /\ agreeOnAllowed(last.params, last.other)
  /\ last.signature = last.otherSignature

\* the same key/value pairs
sameEntries(p, q) == {p[i] : i \in 1..Len(p)} = {q[i] : i \in 1..Len(q)}

\* the same keys, and a different value for some key
differInValue(p, q) ==
  /\ keysOf(p) = keysOf(q)
  /\ \E k \in keysOf(p) : lookup(p, k) # lookup(q, k)

\* C15 as stated: objects with the same key/value pairs have the same
\* signature whatever the insertion order, and objects that differ in a
\* parameter's value have different signatures.
C15_ValuesDistinguish ==
  SignCall =>
    /\ sameEntries(last.params, last.other) => last.signature = last.otherSignature
    /\ differInValue(last.params, last.other) => last.signature # last.otherSignature

\* what generateSignature signs of a value: nothing for null and undefined,
\* its string form otherwise
signed(value) == IF value \in {null, undefined} THEN <<>> ELSE <<String(value)>>

\* the objects differ in the value of exactly one key, an allow-listed one,
\* and the two values are not signed alike
oneSignedValueDiffers(p, q) ==
  /\ \E k \in keysOf(p) \cup keysOf(q) :
       /\ allowed(k)
       /\ signed(lookup(p, k)) # signed(lookup(q, k))
       /\ \A other \in (keysOf(p) \cup keysOf(q)) \ {k} : lookup(p, other) = lookup(q, other)

\* C15 (amended): objects with the same key/value pairs have the same
\* signature whatever the insertion order; objects that differ in the value
\* of exactly one parameter have different signatures when that parameter is
\* allow-listed and its two values differ in string form (null and undefined
\* both meaning "not signed").
C15_SignedValuesDistinguish ==
  SignCall =>
    /\ sameEntries(last.params, last.other) => last.signature = last.otherSignature
    /\ oneSignedValueDiffers(last.params, last.other) => last.signature # last.otherSignature

\* C15 witness: two allow-listed parameters inserted in either order
C15_Witness ==
  /\ SignCall
  /\ Len(last.params) = 2
  /\ keysOf(last.params) = {"folder", "public_id"}
  /\ last.other = <<last.params[2], last.params[1]>>
  /\ null \notin {last.params[1].value, last.params[2].value}
  /\ last.signature = last.otherSignature

----------------------------------------------------------------------------
(* Further properties of authMiddleware, checked under SpecAuth and        *)
(* SpecPreflight                                                           *)

AnyAuthCall == last.op = "authMiddleware"

keyPresented(request) == request.headers.apiKey # Absent

bearerPresented(request) ==
  request.headers.apiKey = Absent /\ request.headers.authorization.scheme = "Bearer"

\* the secret that the credential of the request needs is not configured
secretMissing(request) ==
  \/ keyPresented(request) /\ env.ADMIN_API_KEY = ""
  \/ bearerPresented(request) /\ env.JWT_SECRET = ""

\* C16 as stated: a request whose credential needs a secret that is not
\* configured (ADMIN_API_KEY for X-API-Key, JWT_SECRET for a bearer token)
\* never passes and is rejected with CONFIG_ERROR.
C16_MissingSecretRejected ==
  (AnyAuthCall /\ secretMissing(last.request)) => Rejected(last.response, "CONFIG_ERROR")

\* a non-empty X-API-Key header, or else 'Bearer ' followed by a token
credentialOf(request) ==
  IF request.headers.apiKey \notin {Absent, ""} THEN "key"
  ELSE IF request.headers.authorization.scheme = "Bearer"
          /\ request.headers.authorization.token # NoToken THEN "bearer"
  ELSE "none"

secretMissingFor(request) ==
  \/ credentialOf(request) = "key" /\ env.ADMIN_API_KEY = ""
  \/ credentialOf(request) = "bearer" /\ env.JWT_SECRET = ""

\* C16 (amended): a request other than OPTIONS that carries a non-empty
\* X-API-Key header while ADMIN_API_KEY is not configured, or no such header
\* and 'Bearer <token>' with a non-empty token while JWT_SECRET is not
\* configured, never passes and is rejected with CONFIG_ERROR; no other
\* request gets that code, and the codes for missing, invalid and expired
\* credentials are other codes.
C16_ConfigError ==
  AuthCall =>
    /\ secretMissingFor(last.request) => Rejected(last.response, "CONFIG_ERROR")
    /\ (last.response # undefined /\ last.response.code = "CONFIG_ERROR")
         => secretMissingFor(last.request)
    /\ (last.response # undefined /\ ~secretMissingFor(last.request)) =>
         last.response.code \in {"MISSING_AUTH", "MISSING_TOKEN", "INVALID_API_KEY",
                                 "INVALID_TOKEN", "TOKEN_EXPIRED", "INVALID_SIGNATURE",
                                 "AUTH_ERROR"}

\* C16 witness: a bearer token that decodes, with no JWT_SECRET
C16_Witness ==
  /\ AuthCall
  /\ credentialOf(last.request) = "bearer"
  /\ env.JWT_SECRET = ""
  /\ decodeJWT(last.request.headers.authorization.token) # null
  /\ Rejected(last.response, "CONFIG_ERROR")

PreflightFetch == last.op = "fetch" /\ last.method = "OPTIONS"

notRejectedByAuth ==
  \A i \in 1..Len(last.trace) : last.trace[i].handler = "authMiddleware" => last.trace[i].passed

\* C17 as stated: authMiddleware returns undefined for every OPTIONS
\* request, and the router answers every OPTIONS request with 204 without a
\* rejection by authMiddleware.
C17_PreflightAnswered204 ==
  /\ (AnyAuthCall /\ last.request.method = "OPTIONS") => last.response = undefined
  /\ PreflightFetch => (last.response.status = 204 /\ notRejectedByAuth)

\* C17 (amended): authMiddleware returns undefined for every OPTIONS
\* request, whatever its credentials and the configuration; the router
\* never lets authMiddleware reject an OPTIONS request, and answers it with
\* 204 unless a health route matches it.
C17_PreflightPasses ==
  /\ (AnyAuthCall /\ last.request.method = "OPTIONS") => last.response = undefined
  /\ PreflightFetch =>
       /\ notRejectedByAuth
       /\ last.response.status # 401
       /\ ~healthRequest(fetched) => last.response.status = 204

\* C17 witness: a preflight of an admin path answered 204 with nothing
\* configured
C17_Witness ==
  /\ PreflightFetch
  /\ UnderAdmin(last.url.path)
  /\ env = [ADMIN_API_KEY |-> "", JWT_SECRET |-> ""]
  /\ last.trace = <<[handler |-> "handleCORS", passed |-> FALSE]>>
  /\ last.response.status = 204

\* bearer requests that authMiddleware rejects for the token itself
tokenRejected(request) ==
  /\ request.method # "OPTIONS"
  /\ credentialOf(request) = "bearer"
  /\ env.JWT_SECRET # ""
  /\ authMiddleware(request, env, now).response # undefined

\* C18: any two bearer requests that authMiddleware rejects because the
\* token is malformed, expired or wrongly signed get responses with the
\* same status and the same code.
C18_SameFailureCode ==
  (AuthCall /\ tokenRejected(last.request)) =>
    \A other \in {r \in AuthRequests : tokenRejected(r)} :
      /\ authMiddleware(other, env, now).response.status = last.response.status
      /\ authMiddleware(other, env, now).response.code = last.response.code

----------------------------------------------------------------------------
(* Further properties of rateLimiter, checked under SpecLimiter *)

LimiterCall == last.op = "rateLimiter"

\* C19: every 429 response of rateLimiter carries a retryAfter that is a
\* whole number of seconds >= 1, the same in the body and in the
\* Retry-After header: blockDuration in seconds on the request that sets
\* the block, and the time left until blockUntil, rounded up to seconds, on
\* a request denied while blocked.
C19_RetryAfter ==
  (LimiterCall /\ last.response # undefined) =>
    /\ last.response.status = 429
    /\ last.response.retryAfter \in Nat
    /\ last.response.retryAfter >= 1
    /\ last.response.RetryAfterHeader = last.response.retryAfter
    /\ last.response.code \in {"RATE_LIMIT_EXCEEDED", "RATE_LIMIT_BLOCKED"}
    /\ last.response.code = "RATE_LIMIT_EXCEEDED" =>
         /\ last.response.retryAfter * msPerSec = blockDuration
         /\ rateLimitCache.cache[last.ip].blockUntil = now + blockDuration
    /\ last.response.code = "RATE_LIMIT_BLOCKED" =>
         /\ last.before # null
         /\ (last.response.retryAfter - 1) * msPerSec < last.before.blockUntil - now
         /\ last.before.blockUntil - now <= last.response.retryAfter * msPerSec

\* C19 witness: a request denied less than a second before the block ends
C19_Witness ==
  /\ LimiterCall
  /\ Denied(last.response, "RATE_LIMIT_BLOCKED")
  /\ last.before.blockUntil - now < msPerSec
  /\ last.response.retryAfter = 1

----------------------------------------------------------------------------
(* Properties of requests in flight together, checked under SpecConcurrent *)

\* the requests of the slots that rateLimiter has let pass and that are
\* still in flight
pastLimiter ==
  {slot \in Slots : inflight[slot] # Idle /\ inflight[slot].pc > 1
                      /\ nextMatch(1, inflight[slot].request) < inflight[slot].pc}

\* C20: however the requests in flight for one client interleave, the count
\* in the client's record is at most the number of rateLimiter calls made
\* for the client since the start of the record's window, and every
\* rateLimiter call returns (undefined or a 429 response).
C20_NeverOverCounts ==
  /\ \A k \in ClientKeys :
       has(rateLimitCache, k) =>
         /\ calls[k].start = rateLimitCache.cache[k].windowStart
         /\ rateLimitCache.cache[k].count <= calls[k].n
  /\ last.op = "rateLimiter" => (last.response = undefined \/ last.response.status = 429)

\* C20 witness: two requests of the client in flight, both counted
C20_Witness ==
  /\ pastLimiter = Slots
  /\ \A slot \in Slots : getClientIP(inflight[slot].request) = "203.0.113.5"
  /\ rateLimitCache.cache["203.0.113.5"].count = MaxInFlight
  /\ calls["203.0.113.5"].n = MaxInFlight

----------------------------------------------------------------------------
(* Properties of the rate-limit records, checked under SpecLimiter and     *)
(* SpecRecency                                                             *)

\* the record the call found is not under a block that still runs
foundUnblocked ==
  /\ LimiterCall
  /\ last.before # null
  /\ ~(last.before.blocked /\ now < last.before.blockUntil)

recordAfter == rateLimitCache.cache[last.ip]

\* C23: a record with blocked = TRUE has blockUntil = the time the block
\* was set + blockDuration, a time after the time it was set and after
\* windowStart; a call that resets the window leaves the record with
\* blocked = FALSE and the count restarted.
C23_BlockedRecord ==
  /\ \A k \in ClientKeys :
       (has(rateLimitCache, k) /\ rateLimitCache.cache[k].blocked) =>
         /\ rateLimitCache.cache[k].blockUntil = deadline[k]
         /\ rateLimitCache.cache[k].blockUntil - blockDuration <= now
         /\ rateLimitCache.cache[k].blockUntil - blockDuration >= rateLimitCache.cache[k].windowStart
         /\ rateLimitCache.cache[k].blockUntil > rateLimitCache.cache[k].windowStart
  /\ (foundUnblocked /\ now - last.before.windowStart > windowMs) =>
       /\ has(rateLimitCache, last.ip)
       /\ recordAfter.blocked = FALSE
       /\ recordAfter.count = 1

\* C23 witness: the call after the end of a block has reset the window of
\* the blocked record
C23_Witness ==
  /\ foundUnblocked
  /\ last.before.blocked
  /\ last.before.blockUntil = deadline[last.ip]
  /\ last.before.count > maxRequests
  /\ recordAfter.blocked = FALSE
  /\ recordAfter.count = 1

thresholdOfCall == IF last.isAdmin THEN adminMaxRequests ELSE maxRequests

\* C24: a request of an unblocked client with now - windowStart > windowMs
\* is allowed and leaves count = 1, windowStart = now, blocked = FALSE,
\* whatever the count was; with now - windowStart <= windowMs and
\* count + 1 <= threshold it is allowed, the count grows by one and
\* windowStart stays.
C24_Rollover ==
  foundUnblocked =>
    /\ now - last.before.windowStart > windowMs =>
         /\ last.response = undefined
         /\ recordAfter = [count |-> 1, windowStart |-> now, blocked |-> FALSE,
                           blockUntil |-> last.before.blockUntil]
    /\ (now - last.before.windowStart <= windowMs
          /\ last.before.count + 1 <= thresholdOfCall) =>
         /\ last.response = undefined
         /\ recordAfter = [last.before EXCEPT !.count = @ + 1]

\* C24 witness: a rollover from a count of maxRequests in an unblocked record
C24_Witness ==
  /\ foundUnblocked
  /\ ~last.before.blocked
  /\ last.before.count = maxRequests
  /\ now - last.before.windowStart > windowMs
  /\ recordAfter.count = 1
  /\ recordAfter.windowStart = now

\* C25 as stated: every rateLimiter call changes the record of its client
\* and leaves the client most-recently-used.
C25_EveryCallMutates ==
  LimiterCall =>
    /\ has(rateLimitCache, last.ip)
    /\ recordAfter # last.before
    /\ rateLimitCache.list[1] = last.ip

\* C25 (amended): every rateLimiter call leaves its client
\* most-recently-used; a call that is allowed or that sets the block changes
\* the client's record, a call denied because the client is blocked leaves
\* the record as it was.
C25_CallTouchesRecord ==
  LimiterCall =>
    /\ has(rateLimitCache, last.ip)
    /\ rateLimitCache.list[1] = last.ip
    /\ IF Denied(last.response, "RATE_LIMIT_BLOCKED")
       THEN recordAfter = last.before
       ELSE recordAfter # last.before

\* C25 witness: a blocked client denied while another client is cached
C25_Witness ==
  /\ LimiterCall
  /\ Denied(last.response, "RATE_LIMIT_BLOCKED")
  /\ Len(rateLimitCache.list) = 2
  /\ rateLimitCache.list[1] = last.ip
  /\ recordAfter = last.before

----------------------------------------------------------------------------
(* Threshold of the requests the public routes serve, checked under        *)
(* SpecThreshold                                                           *)

\* the pass ended in a business handler and never ran authMiddleware
servedByPublicRoute ==
  /\ FetchCall
  /\ \E i \in 1..Len(last.trace) : ranBusiness(i)
  /\ \A i \in 1..Len(last.trace) : last.trace[i].handler # "authMiddleware"

\* C27: a request served by a public route (one the router does not send
\* through authMiddleware) is counted against maxRequests, never against
\* adminMaxRequests: when it has been served, the count of its client is at
\* most maxRequests.
C27_PublicCountedAsPublic ==
  servedByPublicRoute =>
    /\ has(rateLimitCache, visitor)
    /\ rateLimitCache.cache[visitor].count <= maxRequests

----------------------------------------------------------------------------
(* Shape of the tokens verifyJWT accepts, checked under SpecAuth           *)

present(segment) == segment.kind \notin {"empty", "missing"}

\* C28: verifyJWT never throws (it answers true or false) and answers true
\* only for a string of exactly three non-empty segments: a token with a
\* missing or empty segment, or with segments after the signature, is
\* answered false.
C28_ExactlyThreeSegments ==
  VerifyCall =>
    /\ last.result \in BOOLEAN
    /\ last.result =>
         /\ present(last.token.header)
         /\ present(last.token.payload)
         /\ present(last.token.signature)
         /\ last.token.rest = <<>>

----------------------------------------------------------------------------
(* Properties of the sessions, checked under SpecSessions                  *)

\* the refresh tokens of the user that the refresh endpoint accepts
validTokens(userId) ==
  {row.token : row \in {r \in db.refresh_tokens : r.user_id = userId /\ r.is_active = 1}}

loginInFlight == \E slot \in Slots : inflight[slot] # Idle /\ inflight[slot].request.op = "login"

\* C21: at most one refresh token per user is valid: when the logins of a
\* user have returned, in whatever order their queries ran, the refresh
\* endpoint accepts the refresh token of one login at most (the latest), and
\* rejects the tokens of the others.
C21_OneSessionPerUser == ~loginInFlight => Cardinality(validTokens(1)) <= 1

SessionCall(op) == last.op = op

\* C22: a refresh request that presents a refresh token revoked before the
\* request (by a logout presenting it or by a password change of its user)
\* is answered 401 INVALID_REFRESH_TOKEN and gets no access token.
C22_RevokedStaysRevoked ==
  /\ \A token \in tokens.revoked : token \notin validTokens(1)
  /\ (SessionCall("refreshToken") /\ last.revokedBefore) =>
       /\ last.response.status = 401
       /\ last.response.code = "INVALID_REFRESH_TOKEN"

\* C22 witness: a refresh request with a token that a logout has revoked,
\* answered after a later login has stored a new token
C22_Witness ==
  /\ SessionCall("refreshToken")
  /\ last.revokedBefore
  /\ last.response.status = 401
  /\ validTokens(1) # {}

----------------------------------------------------------------------------
(* Properties of the inquiries, checked under SpecInquiries                *)

\* the status changes the claim names
allowedChanges ==
  { <<"pending", "in_progress">>, <<"pending", "cancelled">>,
    <<"in_progress", "completed">>, <<"in_progress", "cancelled">>,
    <<"in_progress", "pending">>, <<"completed", "in_progress">>,
    <<"cancelled", "pending">> }

\* the update asks for a status other than the one the handler found
asksChange ==
  /\ "status" \in DOMAIN last.request.updates
  /\ last.request.updates.status # last.currentInquiry.status

\* C29: an inquiry is created with status 'pending'; updateInquiry changes
\* the stored status only along STATUS_TRANSITIONS; a request for any other
\* status change fails with ValidationError and leaves the stored inquiry,
\* its other fields included, as it was.
C29_StatusMachine ==
  /\ last.op = "createInquiry" => db.inquiries[last.inquiryId].status = "pending"
  /\ (last.op = "db.updateInquiry" /\ last.after.status # last.before.status) =>
       <<last.before.status, last.after.status>> \in allowedChanges
  /\ (last.op = "updateInquiry" /\ last.currentInquiry # null /\ asksChange
        /\ <<last.currentInquiry.status, last.request.updates.status>> \notin allowedChanges) =>
       /\ last.response = Thrown("ValidationError")
       /\ db.inquiries[last.request.inquiryId] = last.currentInquiry

\* C30: under any interleaving of updateInquiry requests on an inquiry,
\* every change of the stored status is an allowed transition from the
\* status stored immediately before the write.
C30_EveryWriteAllowed ==
  [][\A id \in 1..Len(db.inquiries) :
       db'.inquiries[id].status # db.inquiries[id].status =>
         <<db.inquiries[id].status, db'.inquiries[id].status>> \in allowedChanges]_vars

====
